---- MODULE Spec2Model ----
(***************************************************************************)
(* INIM Cloud integration: the API session (api.py) and the polling        *)
(* coordinator (coordinator.py) as a state machine.                        *)
(*                                                                         *)
(* A vendor operation is a coroutine; its only suspension points are the   *)
(* HTTP requests of InimApi._request.  Each action below is the code that  *)
(* runs, without suspension, from one HTTP answer to the sending of the    *)
(* next request (or to the return / raise of the operation).               *)
(***************************************************************************)
EXTENDS Integers, Sequences, FiniteSets, TLC

VARIABLES
    token,          \* InimApi._token
    token_ttl,      \* InimApi._token_ttl
    client_id,      \* InimApi._client_id
    api_devices,    \* InimApi._devices (raw list cached by get_devices)
    pc,             \* per caller: where its coroutine is suspended
    op,             \* per caller: the operation it runs, with its arguments
    request_data,   \* per caller: the local request_data dict of the operation
    sent,           \* per caller: the requests InimApi._request issued, in order
    got,            \* per caller: the answers to them, in order
    outcome,        \* per caller: what the operation returned or raised
    data,           \* DataUpdateCoordinator.data (the snapshot)
    last_update_success, \* DataUpdateCoordinator.last_update_success
    previous_alarm_states, \* InimDataUpdateCoordinator._previous_alarm_states
    events,         \* events fired on the bus by the latest refresh, in order
    run,            \* flags of pair (1,1) over the refreshes since start
    run_events,     \* number of events fired for pair (1,1) over them
    options,        \* hass.data[DOMAIN][entry_id]["options"]
    panels,         \* the InimAlarmControlPanel entities, in creation order
    shown,          \* per panel: the alarm_state last written, and from what
    domain_data,    \* hass.data[DOMAIN]: the loaded config entries, in the
                    \* order of the dict
    served,         \* what the latest call of a service of the domain did
    log,            \* per caller: the records the loggers of api.py and
                    \* coordinator.py wrote during the operation, in order
    asked           \* per caller: its handler has called
                    \* coordinator.async_request_refresh()

session_vars == <<token, token_ttl, client_id, api_devices>>
caller_vars == <<pc, op, request_data, sent, got, outcome>>
coord_vars == <<data, last_update_success, previous_alarm_states, events,
                run, run_events>>
hass_vars == <<domain_data, served>>
panel_vars == <<options, panels, shown, hass_vars>>
vars == <<token, token_ttl, client_id, api_devices, pc, op, request_data,
          sent, got, outcome, data, last_update_success,
          previous_alarm_states, events, run, run_events,
          options, panels, shown, domain_data, served, log, asked>>

----------------------------------------------------------------------------
(* Values *)

\* Python None
NULL == "<None>"
\* a dict key that is not there
ABSENT == "<absent>"

\* `not x` of Python for the token / user code strings of the model
Falsy(x) == x \in {NULL, ABSENT, ""}

Callers == {"cmd", "refresh"}

Username == "user@example.org"
Password == "pass-word"

\* tokens the server hands out
ServerTokens == {"tokA", "tokB"}

\* TTL the server sends
ServerTTL == 3600

\* data.get("TTL", 86400)
DefaultTTL == 86400

\* the uuid4-based client ids a session may be constructed with
ClientIds == {"ha-1111", "ha-2222"}

\* the user codes an entry is set up with ("" when none was entered)
UserCodes == {"", "1234"}

\* async_setup_entry: the "options" dict it hands to the platforms.  It
\* holds the scan interval and the user code only; a key that is not there
\* is the empty sequence, a key that is there a sequence of one value.
EntryOptions(user_code) ==
    [scan_interval |-> 30, user_code |-> user_code,
     arm_away_scenario |-> <<>>, arm_home_scenario |-> <<>>,
     disarm_scenario |-> <<>>]

\* self._options.get(key, -1)
OptionOr(value, default) == IF value = <<>> THEN default ELSE value[1]

----------------------------------------------------------------------------
(* Requests (api.py builds one dict per operation) *)

\* const.py BYPASS_MODE_NORMAL / BYPASS_MODE_BYPASS
BYPASS_MODE_NORMAL == 0
BYPASS_MODE_BYPASS == 3

\* insert_areas: mode = 0 if arm else 3
AREAS_MODE_ARM == 0
AREAS_MODE_DISARM == 3

\* request_poll: "Type": 5
POLL_TYPE == 5

\* str(device_id)
Str(n) == ToString(n)

\* The arguments of the operations the callers start.
DeviceArgs == {1}
ScenarioArgs == {0, 1, 2}
ZoneArgs == {1}
AreaIdArgs == {<<1>>, <<1, 2>>}

\* via: who called the operation: "api" for a direct call (the coordinator,
\* async_setup_entry), or the entity or service that awaits it
OpRecord(name, d, i, a, c, f) ==
    [name |-> name, device_id |-> d, item_id |-> i, area_ids |-> a,
     user_code |-> c, flag |-> f, via |-> "api"]

Via(o, handler) == [o EXCEPT !.via = handler]

GetDevicesOp == OpRecord("get_devices", 0, 0, <<>>, "", FALSE)
NoOp == OpRecord("none", 0, 0, <<>>, "", FALSE)

\* a bare call of InimApi.authenticate() (async_setup_entry, the config flow)
AuthenticateOp == OpRecord("authenticate", 0, 0, <<>>, "", FALSE)

CommandOps ==
    {OpRecord("request_poll", d, 0, <<>>, "", FALSE) : d \in DeviceArgs}
    \cup {OpRecord("activate_scenario", d, s, <<>>, "", FALSE) :
            d \in DeviceArgs, s \in ScenarioArgs}
    \cup {OpRecord("bypass_zone", d, z, <<>>, c, f) :
            d \in DeviceArgs, z \in ZoneArgs, c \in UserCodes, f \in BOOLEAN}
    \cup {OpRecord("insert_areas", d, 0, a, c, f) :
            d \in DeviceArgs, a \in AreaIdArgs, c \in UserCodes, f \in BOOLEAN}

\* authenticate(): the RegisterClient request
RegisterClientRequest(cid) ==
    [Node |-> "", Name |-> "", ClientIP |-> "", Method |-> "RegisterClient",
     ClientId |-> "", Token |-> "", Context |-> ABSENT,
     Params |-> [Username |-> Username, Password |-> Password,
                 ClientId |-> cid, ClientName |-> "HomeAssistant",
                 ClientInfo |-> "home_assistant 1.0.0", Role |-> "1", Brand |-> "0"]]

\* no request
NoRequest == [RegisterClientRequest("") EXCEPT !.Method = "none"]

\* request_poll(): request_data
RequestPollRequest(o, tok, cid) ==
    [Node |-> "", Name |-> "Home Assistant", ClientIP |-> "",
     Method |-> "RequestPoll", ClientId |-> cid, Token |-> tok,
     Context |-> "intrusion",
     Params |-> [DeviceId |-> o.device_id, Type |-> POLL_TYPE]]

\* get_devices(): request_data
GetDevicesRequest(o, tok, cid) ==
    [Node |-> "inimhome", Name |-> "it.inim.inimutenti", ClientIP |-> "",
     Method |-> "GetDevicesExtended", ClientId |-> cid, Token |-> tok,
     Context |-> NULL,
     Params |-> [Info |-> "16908287"]]

\* activate_scenario(): request_data
ActivateScenarioRequest(o, tok, cid) ==
    [Node |-> "inimhome", Name |-> "it.inim.inimutenti", ClientIP |-> "",
     Method |-> "ActivateScenario", ClientId |-> cid, Token |-> tok,
     Context |-> NULL,
     Params |-> [ScenarioId |-> o.item_id, DeviceId |-> o.device_id]]

\* bypass_zone(): request_data
BypassZoneRequest(o, tok, cid) ==
    [Node |-> "inimhome", Name |-> "it.inim.inimutenti", ClientIP |-> "",
     Method |-> "InsertZone", ClientId |-> cid, Token |-> tok,
     Context |-> ABSENT,
     Params |-> [ZoneId |-> o.item_id,
                 Mode |-> IF o.flag THEN BYPASS_MODE_BYPASS
                                    ELSE BYPASS_MODE_NORMAL,
                 DeviceId |-> Str(o.device_id), Code |-> o.user_code,
                 Value |-> 0]]

\* faulty variant, for sensitivity checks: the two modes are exchanged
InsertAreasRequestSwapped(o, tok, cid) ==
    [Node |-> "inimhome", Name |-> "it.inim.inimutenti", ClientIP |-> "",
     Method |-> "InsertAreas", ClientId |-> cid, Token |-> tok,
     Context |-> ABSENT,
     Params |-> [AreaIds |-> o.area_ids,
                 Mode |-> IF o.flag THEN AREAS_MODE_DISARM
                                    ELSE AREAS_MODE_ARM,
                 DeviceId |-> Str(o.device_id), Code |-> o.user_code]]

\* insert_areas(): request_data
InsertAreasRequest(o, tok, cid) ==
    [Node |-> "inimhome", Name |-> "it.inim.inimutenti", ClientIP |-> "",
     Method |-> "InsertAreas", ClientId |-> cid, Token |-> tok,
     Context |-> ABSENT,
     Params |-> [AreaIds |-> o.area_ids,
                 Mode |-> IF o.flag THEN AREAS_MODE_ARM
                                    ELSE AREAS_MODE_DISARM,
                 DeviceId |-> Str(o.device_id), Code |-> o.user_code]]

\* the request_data dict an operation builds after _ensure_authenticated()
BuildRequest(o, tok, cid) ==
    CASE o.name = "request_poll" -> RequestPollRequest(o, tok, cid)
      [] o.name = "get_devices" -> GetDevicesRequest(o, tok, cid)
      [] o.name = "activate_scenario" -> ActivateScenarioRequest(o, tok, cid)
      [] o.name = "bypass_zone" -> BypassZoneRequest(o, tok, cid)
      [] o.name = "insert_areas" -> InsertAreasRequest(o, tok, cid)

\* faulty variant, for sensitivity checks: the retry is sent with the request as it was first built
WithTokenStale(req, tok) == req

\* request_data["Token"] = self._token
WithToken(req, tok) == [req EXCEPT !.Token = tok]

----------------------------------------------------------------------------
(* The vendor's raw device list *)

\* most devices / most area records (over all devices) in one raw list
MaxDevices == 2
MaxAreaRecords == 2

\* DeviceId 0 stands for a device without a usable id (None or 0: both are
\* falsy in `if not device_id`)
DeviceIdValues == {0, 1, 2}

\* the area ids a device reports: device 1 has two areas, the others one
AreaIdValues(d) == IF d = 1 THEN {1, 2} ELSE {1}

\* device 1 and area 1 carry a "Name", the others do not
RawDeviceName(id) == IF id = 1 THEN "Villa" ELSE ABSENT
RawAreaName(id) == IF id = 1 THEN "Perimeter" ELSE ABSENT

\* Scenario names are sequences of characters, so that lower(), upper() and
\* `in` can be computed on them; a missing "Name" reads as the empty name.
TOTALE == <<"T", "O", "T", "A", "L", "E">>
SPENTO == <<"S", "P", "E", "N", "T", "O">>
NOTTE == <<"N", "O", "T", "T", "E">>

RawScenario(id, name) == [ScenarioId |-> id, Name |-> name]

\* device 1 reports one zone and two scenarios, the others none (a missing
\* "Zones" or "Scenarios" key reads as the empty list)
RawZones(id) == IF id = 1 THEN <<[ZoneId |-> 1, Name |-> "Door"]>> ELSE <<>>
RawScenarios(id) ==
    IF id = 1 THEN <<RawScenario(0, TOTALE), RawScenario(1, SPENTO)>>
    ELSE <<>>

\* device 1 reports scenario 0 as active, the others report none; a missing
\* or null "ActiveScenario" is the empty sequence
RawActiveScenario(id) == IF id = 1 THEN <<0>> ELSE <<>>

\* area 1 reports armed (1), the others disarmed (4)
RawArmed(id) == IF id = 1 THEN 1 ELSE 4

RawArea(id, alarm) ==
    [AreaId |-> id, Name |-> RawAreaName(id), Alarm |-> alarm,
     Armed |-> RawArmed(id)]
\* AreasNull tells a device whose "Areas" is the JSON null from one whose
\* "Areas" is a list
RawDevice(id, areas) ==
    [DeviceId |-> id, Name |-> RawDeviceName(id), Areas |-> areas,
     AreasNull |-> FALSE,
     Zones |-> RawZones(id), Scenarios |-> RawScenarios(id),
     ActiveScenario |-> RawActiveScenario(id)]

\* a device the vendor answers with "Areas": null
RawDeviceNullAreas(id) == [RawDevice(id, <<>>) EXCEPT !.AreasNull = TRUE]

RawAreas(d) == {RawArea(a, f) : a \in AreaIdValues(d), f \in BOOLEAN}

SeqsOfLen(S, n) == [1..n -> S]

\* the devices that carry exactly n area records
RawDevicesWith(n) ==
    UNION {{RawDevice(d, as) : as \in SeqsOfLen(RawAreas(d), n)} :
              d \in DeviceIdValues}

\* the raw lists of exactly nd devices and at most nr area records
RECURSIVE RawListsOf(_, _)
RawListsOf(nd, nr) ==
    IF nd = 0 THEN {<<>>}
    ELSE UNION {{<<dev>> \o rest : dev \in RawDevicesWith(k),
                                   rest \in RawListsOf(nd - 1, nr - k)}
                : k \in 0..nr}

RawLists == UNION {RawListsOf(nd, MaxAreaRecords) : nd \in 0..MaxDevices}

\* the raw lists the server answers a bare get_devices() with
SmallRawLists == {<<>>, <<RawDevice(1, <<RawArea(1, TRUE)>>)>>}

\* raw lists whose second device has no list of areas
BrokenRawLists ==
    {<<RawDevice(1, <<RawArea(1, f)>>), RawDeviceNullAreas(2)>> : f \in BOOLEAN}

----------------------------------------------------------------------------
(* Transport: InimApi._request *)

\* what one HTTP exchange can end in
\*   "json"            a JSON envelope was parsed
\*   "ClientError"     aiohttp.ClientError raised while connecting
\*   "ClientResponseError" response.raise_for_status() on a non-2xx status
\*                     (aiohttp.ClientResponseError, a ClientError)
\*   "ContentTypeError" response.json() on a non-JSON content type
\*                     (aiohttp.ContentTypeError, a ClientResponseError)
\*   "JSONDecodeError" response.json() on a body that is not JSON
\*   "TimeoutError"    the request's total timeout (asyncio.TimeoutError)
FailureKinds == {"ClientError", "ClientResponseError", "ContentTypeError",
                 "JSONDecodeError", "TimeoutError"}

\* str() of a ClientResponseError ends in url=<the URL requested>, and the URL
\* is API_BASE_URL?req=<the request as JSON>; the other failures do not name it
UrlKinds == {"ClientResponseError", "ContentTypeError"}

NoData == [Token |-> ABSENT, TTL |-> <<>>, HasDevices |-> FALSE, Devices |-> <<>>]

Envelope(status, msg, d) ==
    [kind |-> "json", Status |-> status, ErrMsg |-> msg, Data |-> d,
     url |-> NoRequest]
Failure(k) ==
    [kind |-> k, Status |-> 0, ErrMsg |-> ABSENT, Data |-> NoData,
     url |-> NoRequest]

\* the exchange of request req ending in r
Answering(req, r) == IF r.kind \in UrlKinds THEN [r EXCEPT !.url = req] ELSE r

\* the status codes the server answers with
Statuses == {0, 1, 17, 18, 19, 20, 21}

ErrorEnvelopes ==
    {Envelope(st, m, NoData) : st \in Statuses \ {0}, m \in {ABSENT, "vendor says no"}}

Failures == {Failure(k) : k \in FailureKinds}

RegisterClientReplies ==
    {Envelope(0, ABSENT, [NoData EXCEPT !.Token = tk, !.TTL = ttl]) :
        tk \in ServerTokens \cup {ABSENT, ""}, ttl \in {<<>>, <<ServerTTL>>}}
    \cup ErrorEnvelopes \cup Failures

GetDevicesReplies(lists) ==
    {Envelope(0, ABSENT, [NoData EXCEPT !.HasDevices = TRUE, !.Devices = l]) :
        l \in lists}
    \cup {Envelope(0, ABSENT, NoData)}
    \cup ErrorEnvelopes \cup Failures

CommandReplies == {Envelope(0, ABSENT, NoData)} \cup ErrorEnvelopes \cup Failures

\* the answers the server can give to a request
AnswersTo(req, lists) ==
    CASE req.Method = "RegisterClient" -> RegisterClientReplies
      [] req.Method = "GetDevicesExtended" -> GetDevicesReplies(lists)
      [] OTHER -> CommandReplies

Replies(req, lists) == {Answering(req, r) : r \in AnswersTo(req, lists)}

\* faulty variant, for sensitivity checks: status 20 is not taken as token-invalid
TokenInvalidCodesShort == {18, 19}

\* the token-invalid codes of _request
TokenInvalidCodes == {18, 19, 20}

\* url: the request whose URL the exception's message embeds, if any
Returned(d) ==
    [exc |-> "none", msg |-> "", code |-> 0, data |-> d, url |-> NoRequest]
Raised(e, m, c) ==
    [exc |-> e, msg |-> m, code |-> c, data |-> NoData, url |-> NoRequest]

\* InimApiError(f"Connection error: {err}")
ConnectionError(reply) ==
    [Raised("InimApiError", "Connection error", 0) EXCEPT !.url = reply.url]

\* faulty variant, for sensitivity checks: the plain InimApiError is raised without the status code
RequestDropsCode(reply) ==
    CASE reply.kind = "json" ->
            IF reply.Status # 0
            THEN LET error_msg == IF reply.ErrMsg = ABSENT THEN "Unknown error"
                                                            ELSE reply.ErrMsg
                     error_code == reply.Status
                 IN  IF error_code \in TokenInvalidCodes
                     THEN Raised("InimAuthError", error_msg, error_code)
                     ELSE Raised("InimApiError", error_msg, 0)
            ELSE Returned(reply.Data)
      [] reply.kind \in {"ClientError", "ClientResponseError", "ContentTypeError"} ->
            ConnectionError(reply)
      [] OTHER -> Raised(reply.kind, "", 0)

\* InimApi._request: the envelope it returns or the exception it raises
Request(reply) ==
    CASE reply.kind = "json" ->
            IF reply.Status # 0
            THEN LET error_msg == IF reply.ErrMsg = ABSENT THEN "Unknown error"
                                                            ELSE reply.ErrMsg
                     error_code == reply.Status
                 IN  IF error_code \in TokenInvalidCodes
                     THEN Raised("InimAuthError", error_msg, error_code)
                     ELSE Raised("InimApiError", error_msg, error_code)
            ELSE Returned(reply.Data)
      [] reply.kind \in {"ClientError", "ClientResponseError", "ContentTypeError"} ->
            ConnectionError(reply)
      [] OTHER -> Raised(reply.kind, "", 0)

\* faulty variant, for sensitivity checks: `except InimApiError` where the code has `except InimAuthError`
IsAnyApiError(r) == r.exc \in {"InimApiError", "InimAuthError"}

\* the exception classes: InimAuthError is an InimApiError
IsInimAuthError(r) == r.exc = "InimAuthError"
IsInimApiError(r) == r.exc \in {"InimApiError", "InimAuthError"}

\* InimApi.authenticate after its request was answered: the token and TTL it
\* stores and what it returns or raises
Authenticate(reply, tok, ttl) ==
    LET response == Request(reply) IN
    IF response.exc # "none"
    THEN [token |-> tok, token_ttl |-> ttl, result |-> response]
    ELSE LET d == response.data
             newtok == IF d.Token = ABSENT THEN NULL ELSE d.Token
             newttl == IF d.TTL = <<>> THEN DefaultTTL ELSE d.TTL[1]
         IN  [token |-> newtok, token_ttl |-> newttl,
              result |-> IF Falsy(newtok)
                         THEN Raised("InimAuthError", "No token received", 0)
                         ELSE Returned(NoData)]

\* faulty variant, for sensitivity checks: _ensure_authenticated() authenticates whatever the token is
EnsureAlwaysAuthenticates(tok) == TRUE

\* faulty variant, for sensitivity checks: the token is taken as it is
EnsureNeverAuthenticates(tok) == FALSE

\* InimApi._ensure_authenticated: whether it calls authenticate()
EnsureCallsAuthenticate(tok) == Falsy(tok)

\* get_devices: response.get("Data", {}).get("Devices", [])
DevicesOf(d) == IF d.HasDevices THEN d.Devices ELSE <<>>

----------------------------------------------------------------------------
(* Coordinator: snapshot, accessors, alarm-transition detection *)

\* DataUpdateCoordinator.data before the first refresh (None)
NoSnapshot == [is_none |-> TRUE, devices |-> <<>>]
Snapshot(devs) == [is_none |-> FALSE, devices |-> devs]

\* _async_update_data: device_data of one raw device
DeviceData(device) ==
    [device_id |-> device.DeviceId,
     name |-> IF device.Name = ABSENT THEN "INIM Alarm" ELSE device.Name,
     areas |-> device.Areas,
     areas_none |-> device.AreasNull,
     zones |-> device.Zones,
     scenarios |-> device.Scenarios,
     active_scenario |-> device.ActiveScenario]

\* _async_update_data: the loop that fills data["devices"]
BuildDevices(devices) == [i \in 1..Len(devices) |-> DeviceData(devices[i])]

\* the side table as a function on the keys it holds
EmptyTable == [k \in {} |-> FALSE]
TableGet(tab, key, default) == IF key \in DOMAIN tab THEN tab[key] ELSE default
TablePut(tab, key, v) == [k \in DOMAIN tab \cup {key} |-> IF k = key THEN v ELSE tab[k]]

\* area.get("Name", f"Area {area_id}")
AreaName(area) == IF area.Name = ABSENT THEN "Area " \o Str(area.AreaId) ELSE area.Name

AlarmEvent(device, area) ==
    [device_id |-> device.device_id, device_name |-> device.name,
     area_id |-> area.AreaId, area_name |-> AreaName(area)]

\* faulty variant, for sensitivity checks: the event is fired on the level of the flag, not on its edge
JustTriggeredLevel(current_alarm, previous_alarm) == current_alarm

\* `if current_alarm and not previous_alarm`
JustTriggered(current_alarm, previous_alarm) == current_alarm /\ ~previous_alarm

\* _check_alarm_triggered: the body of the inner loop for one area; st holds
\* the side table, the events fired so far and whether an exception was raised
CheckArea(st, device, area) ==
    LET key == <<device.device_id, area.AreaId>>
        current_alarm == area.Alarm
        previous_alarm == TableGet(st.table, key, FALSE)
    IN  [st EXCEPT !.table = TablePut(st.table, key, current_alarm),
                   !.fired = IF JustTriggered(current_alarm, previous_alarm)
                             THEN Append(st.fired, AlarmEvent(device, area))
                             ELSE st.fired]

\* _check_alarm_triggered: the inner loop over device["areas"], from index j;
\* `for area in None` raises TypeError
RECURSIVE CheckAreas(_, _, _)
CheckAreas(st, device, j) ==
    IF device.areas_none THEN [st EXCEPT !.raised = TRUE]
    ELSE IF j > Len(device.areas) THEN st
    ELSE CheckAreas(CheckArea(st, device, device.areas[j]), device, j + 1)

\* `if not device_id: continue`
SkipsDevice(device) == device.device_id = 0

\* _check_alarm_triggered: the outer loop over data["devices"], from index i;
\* an exception ends it where it is raised
RECURSIVE CheckDevices(_, _, _)
CheckDevices(st, devs, i) ==
    IF st.raised \/ i > Len(devs) THEN st
    ELSE CheckDevices(IF SkipsDevice(devs[i]) THEN st
                      ELSE CheckAreas(st, devs[i], 1),
                      devs, i + 1)

CheckAlarmTriggered(devs, table) ==
    CheckDevices([table |-> table, fired |-> <<>>, raised |-> FALSE], devs, 1)

\* faulty variant, for sensitivity checks: a failed get_devices() is swallowed and an empty snapshot returned
AsyncUpdateDataSwallows(result, table) ==
    IF result.exc # "none" \/ result.devices = <<>>
    THEN [failed |-> FALSE, devices |-> <<>>, table |-> table, fired |-> <<>>]
    ELSE LET devs == BuildDevices(result.devices)
             chk == CheckAlarmTriggered(devs, table)
         IN  [failed |-> FALSE, devices |-> devs, table |-> chk.table,
              fired |-> chk.fired]

\* _async_update_data, after get_devices() returned or raised `result`:
\* whether it raises UpdateFailed, the data it returns, the side table it
\* leaves and the events it fired.  An exception of _check_alarm_triggered is
\* caught by `except Exception` and raised as UpdateFailed.
AsyncUpdateData(result, table) ==
    IF result.exc # "none"
    THEN [failed |-> TRUE, devices |-> <<>>, table |-> table, fired |-> <<>>]
    ELSE IF result.devices = <<>>
    THEN [failed |-> FALSE, devices |-> <<>>, table |-> table, fired |-> <<>>]
    ELSE LET devs == BuildDevices(result.devices)
             chk == CheckAlarmTriggered(devs, table)
         IN  [failed |-> chk.raised, devices |-> devs, table |-> chk.table,
              fired |-> chk.fired]

\* InimDataUpdateCoordinator.devices
Devices(snap) == IF snap.is_none THEN <<>> ELSE snap.devices

\* first element of a sequence that satisfies a test, as a sequence of 0 or 1
RECURSIVE FirstWith(_, _, _)
FirstWith(seq, Test(_), i) ==
    IF i > Len(seq) THEN <<>>
    ELSE IF Test(seq[i]) THEN <<seq[i]>> ELSE FirstWith(seq, Test, i + 1)

\* InimDataUpdateCoordinator.get_device (None is the empty sequence)
GetDevice(snap, device_id) ==
    IF snap.is_none THEN <<>>
    ELSE LET T(d) == d.device_id = device_id IN FirstWith(snap.devices, T, 1)

\* InimDataUpdateCoordinator.get_area
GetArea(snap, device_id, area_id) ==
    LET device == GetDevice(snap, device_id) IN
    IF device = <<>> THEN <<>>
    ELSE LET T(a) == a.AreaId = area_id IN FirstWith(device[1].areas, T, 1)

\* InimDataUpdateCoordinator.get_zone
GetZone(snap, device_id, zone_id) ==
    LET device == GetDevice(snap, device_id) IN
    IF device = <<>> THEN <<>>
    ELSE LET T(z) == z.ZoneId = zone_id IN FirstWith(device[1].zones, T, 1)

\* InimDataUpdateCoordinator.get_scenario
GetScenario(snap, device_id, scenario_id) ==
    LET device == GetDevice(snap, device_id) IN
    IF device = <<>> THEN <<>>
    ELSE LET T(x) == x.ScenarioId = scenario_id
         IN  FirstWith(device[1].scenarios, T, 1)

----------------------------------------------------------------------------
(* Alarm control panel: scenario resolution and alarm_state *)

\* const.py SCENARIO_TOTAL / SCENARIO_DISARMED
SCENARIO_TOTAL == 0
SCENARIO_DISARMED == 1

Uppers == <<"A", "B", "C", "D", "E", "F", "G", "H", "I", "J", "K", "L", "M",
            "N", "O", "P", "Q", "R", "S", "T", "U", "V", "W", "X", "Y", "Z">>
Lowers == <<"a", "b", "c", "d", "e", "f", "g", "h", "i", "j", "k", "l", "m",
            "n", "o", "p", "q", "r", "s", "t", "u", "v", "w", "x", "y", "z">>

Recase(ch, from, to) ==
    IF \E i \in DOMAIN from : from[i] = ch
    THEN to[CHOOSE i \in DOMAIN from : from[i] = ch]
    ELSE ch

\* str.lower() / str.upper()
Lower(str) == [i \in 1..Len(str) |-> Recase(str[i], Uppers, Lowers)]
Upper(str) == [i \in 1..Len(str) |-> Recase(str[i], Lowers, Uppers)]

\* `needle in hay` on strings
Contains(needle, hay) ==
    \E i \in 0..(Len(hay) - Len(needle)) :
        SubSeq(hay, i + 1, i + Len(needle)) = needle


\* faulty variant, for sensitivity checks: the default is always SCENARIO_TOTAL
FindScenarioIdOneDefault(scenarios, name, default) ==
    LET T(scenario) == Contains(Lower(name), Lower(scenario.Name))
        found == FirstWith(scenarios, T, 1)
    IN  IF found = <<>> THEN SCENARIO_TOTAL ELSE found[1].ScenarioId

\* InimAlarmControlPanel._find_scenario_id
FindScenarioId(scenarios, name, default) ==
    LET T(scenario) == Contains(Lower(name), Lower(scenario.Name))
        found == FirstWith(scenarios, T, 1)
    IN  IF found = <<>> THEN default ELSE found[1].ScenarioId

\* InimAlarmControlPanel._find_partial_scenarios
RECURSIVE FindPartialScenarios(_)
FindPartialScenarios(scenarios) ==
    IF scenarios = <<>> THEN <<>>
    ELSE LET scenario == Head(scenarios)
             name == Upper(scenario.Name)
         IN  (IF name \notin {TOTALE, SPENTO}
              THEN <<scenario.ScenarioId>> ELSE <<>>)
             \o FindPartialScenarios(Tail(scenarios))

\* InimAlarmControlPanel.__init__ for a device of the snapshot
PanelInit(device, opts) ==
    LET scenarios == device.scenarios
        configured_away == OptionOr(opts.arm_away_scenario, -1)
        configured_home == OptionOr(opts.arm_home_scenario, -1)
        configured_disarm == OptionOr(opts.disarm_scenario, -1)
        arm_away_scenario ==
            IF configured_away >= 0 THEN configured_away
            ELSE FindScenarioId(scenarios, TOTALE, SCENARIO_TOTAL)
        disarm_scenario ==
            IF configured_disarm >= 0 THEN configured_disarm
            ELSE FindScenarioId(scenarios, SPENTO, SCENARIO_DISARMED)
        arm_home_scenarios ==
            IF configured_home >= 0 THEN <<configured_home>>
            ELSE FindPartialScenarios(scenarios)
        arm_home_scenario ==
            IF configured_home >= 0 THEN configured_home
            ELSE IF arm_home_scenarios # <<>> THEN arm_home_scenarios[1]
            ELSE arm_away_scenario
    IN  [device_id |-> device.device_id,
         scenarios |-> scenarios,
         arm_away_scenario |-> arm_away_scenario,
         disarm_scenario |-> disarm_scenario,
         arm_home_scenario |-> arm_home_scenario,
         arm_home_scenarios |-> arm_home_scenarios]

\* alarm_control_panel.async_setup_entry: one panel per device with a usable
\* device id
RECURSIVE PanelsFor(_, _)
PanelsFor(devs, opts) ==
    IF devs = <<>> THEN <<>>
    ELSE (IF Head(devs).device_id # 0 THEN <<PanelInit(Head(devs), opts)>>
                                       ELSE <<>>)
         \o PanelsFor(Tail(devs), opts)

\* area.get("Alarm", 0) > 0
AlarmPositive(area) == area.Alarm

\* faulty variant, for sensitivity checks: the test of the home scenarios is
\* missing
AlarmStateNoHome(panel, snap) ==
    LET device == GetDevice(snap, panel.device_id) IN
    IF device = <<>> THEN NULL
    ELSE LET active_scenario == device[1].active_scenario
             areas == device[1].areas
         IN  IF active_scenario = <<>> THEN NULL
             ELSE IF active_scenario[1] = panel.disarm_scenario THEN "disarmed"
             ELSE IF active_scenario[1] = panel.arm_away_scenario THEN "armed_away"
             ELSE IF \E i \in 1..Len(areas) : AlarmPositive(areas[i])
             THEN "triggered"
             ELSE "armed_away"

\* InimAlarmControlPanel.alarm_state (None is NULL)
AlarmState(panel, snap) ==
    LET device == GetDevice(snap, panel.device_id) IN
    IF device = <<>> THEN NULL
    ELSE LET active_scenario == device[1].active_scenario
             areas == device[1].areas
         IN  IF active_scenario = <<>> THEN NULL
             ELSE IF active_scenario[1] = panel.disarm_scenario THEN "disarmed"
             ELSE IF active_scenario[1] = panel.arm_away_scenario THEN "armed_away"
             ELSE IF \E i \in 1..Len(panel.arm_home_scenarios) :
                        panel.arm_home_scenarios[i] = active_scenario[1]
             THEN "armed_home"
             ELSE IF \E i \in 1..Len(areas) : AlarmPositive(areas[i])
             THEN "triggered"
             ELSE "armed_away"

----------------------------------------------------------------------------
(* State machine *)

Pending ==
    [exc |-> "pending", msg |-> "", code |-> 0, devices |-> <<>>,
     url |-> NoRequest]

\* what an operation returns / raises to its caller
OpReturned(devs) ==
    [exc |-> "none", msg |-> "", code |-> 0, devices |-> devs,
     url |-> NoRequest]
OpRaised(r) ==
    [exc |-> r.exc, msg |-> r.msg, code |-> r.code, devices |-> <<>>,
     url |-> r.url]

\* what the history keeps of an answer
Seen(reply) == [kind |-> reply.kind, Status |-> reply.Status,
                ErrMsg |-> reply.ErrMsg, Token |-> reply.Data.Token]

\* longest run of refreshes followed for pair (1,1)
MaxRun == 5
RunOff == [on |-> FALSE, flags |-> <<>>]

\* the raw lists that hold device 1 with area 1 once and nothing else
IsPure(devs) ==
    /\ Len(devs) = 1
    /\ devs[1].DeviceId = 1
    /\ Len(devs[1].Areas) = 1
    /\ devs[1].Areas[1].AreaId = 1

EventsFor(fired, d, a) ==
    Cardinality({i \in 1..Len(fired) : fired[i].device_id = d /\ fired[i].area_id = a})

\* the state after construction: InimApi.__init__, the coordinator's __init__
InitCallers ==
    /\ pc = [c \in Callers |-> "idle"]
    /\ op = [c \in Callers |-> NoOp]
    /\ request_data = [c \in Callers |-> NoRequest]
    /\ sent = [c \in Callers |-> <<>>]
    /\ got = [c \in Callers |-> <<>>]
    /\ outcome = [c \in Callers |-> Pending]
    /\ log = [c \in Callers |-> <<>>]
    /\ asked = [c \in Callers |-> FALSE]

InitCoordinator ==
    /\ data = NoSnapshot
    /\ last_update_success = TRUE
    /\ previous_alarm_states = EmptyTable
    /\ events = <<>>
    /\ run = [on |-> TRUE, flags |-> <<>>]
    /\ run_events = 0

\* no service of the domain has been called yet
NoService ==
    [service |-> "", device_id |-> 0, call_code |-> NULL, result |-> "",
     session |-> NULL, user_code |-> NULL, refreshed |-> NULL, error |-> ""]

\* no platform has created its entities yet; the services and the entries
\* they look through are followed in SpecServices only
InitPanels ==
    /\ panels = <<>>
    /\ shown = <<>>
    /\ domain_data = <<>>
    /\ served = NoService

Init ==
    /\ token = NULL
    /\ token_ttl = 0
    /\ client_id \in ClientIds
    /\ api_devices = <<>>
    /\ InitCallers
    /\ InitCoordinator
    /\ options \in {EntryOptions(c) : c \in UserCodes}
    /\ InitPanels

\* a record of the log: the logger, the level, the format string, the
\* arguments as they are formatted, and the request whose URL an exception
\* among the arguments carries in its message
LogRecord(logger, level, msg, args, url) ==
    [logger |-> logger, level |-> level, msg |-> msg, args |-> args, url |-> url]

\* _request: _LOGGER.debug("API Request: %s", request_data.get("Method"))
RequestLog(req) ==
    <<LogRecord("api", "debug", "API Request: %s", <<req.Method>>, NoRequest)>>

\* _request: _LOGGER.debug("API Response Status: %s", data.get("Status"))
ResponseLog(reply) ==
    IF reply.kind = "json"
    THEN <<LogRecord("api", "debug", "API Response Status: %s",
                     <<Str(reply.Status)>>, NoRequest)>>
    ELSE <<>>

\* authenticate: what _request and authenticate log once the answer is in
AuthenticateLog(reply, tok, ttl) ==
    LET result == Authenticate(reply, tok, ttl).result IN
    ResponseLog(reply) \o
    (IF result.exc = "none"
     THEN <<LogRecord("api", "info", "Successfully authenticated with INIM Cloud",
                      <<>>, NoRequest)>>
     ELSE IF IsInimApiError(result)
     THEN <<LogRecord("api", "error", "Authentication failed: %s",
                      <<result.msg>>, result.url)>>
     ELSE <<>>)

\* the _LOGGER.info of an operation whose first attempt succeeded
OperationLog(o) ==
    CASE o.name = "activate_scenario" ->
            <<LogRecord("api", "info", "Scenario %s activated for device %s",
                        <<Str(o.item_id), Str(o.device_id)>>, NoRequest)>>
      [] o.name = "bypass_zone" ->
            <<LogRecord("api", "info", "Zone %s %s on device %s",
                        <<Str(o.item_id),
                          IF o.flag THEN "bypassed" ELSE "reinstated",
                          Str(o.device_id)>>, NoRequest)>>
      [] o.name = "insert_areas" ->
            <<LogRecord("api", "info", "Areas %s %s on device %s",
                        <<ToString(o.area_ids),
                          IF o.flag THEN "armed" ELSE "disarmed",
                          Str(o.device_id)>>, NoRequest)>>
      [] OTHER -> <<>>

\* _request and the operation: what they log once the answer to an attempt
\* is in
AttemptLog(reply, o, first) ==
    ResponseLog(reply) \o
    (IF first /\ Request(reply).exc = "none" THEN OperationLog(o) ELSE <<>>)

\* _async_update_data and _check_alarm_triggered: what they log when
\* get_devices() returned or raised res, the events `fired` were fired and
\* the update failed or not
CoordinatorLog(res, fired, failed) ==
    IF res.exc = "none"
    THEN IF res.devices = <<>>
         THEN <<LogRecord("coordinator", "warning",
                          "No devices found in INIM Cloud", <<>>, NoRequest)>>
         ELSE <<LogRecord("coordinator", "debug", "Updated data for %d devices",
                          <<Str(Len(res.devices))>>, NoRequest)>>
              \o [i \in 1..Len(fired) |->
                     LogRecord("coordinator", "warning",
                               "ALARM TRIGGERED! Device: %s, Area: %s (%s)",
                               <<Str(fired[i].device_id), Str(fired[i].area_id),
                                 fired[i].area_name>>,
                               NoRequest)]
              \o (IF failed
                  THEN <<LogRecord("coordinator", "exception",
                                   "Unexpected error updating INIM data",
                                   <<>>, NoRequest)>>
                  ELSE <<>>)
    ELSE IF IsInimAuthError(res)
    THEN <<LogRecord("coordinator", "error", "Authentication error: %s",
                     <<res.msg>>, res.url)>>
    ELSE IF IsInimApiError(res)
    THEN <<LogRecord("coordinator", "error", "API error: %s",
                     <<res.msg>>, res.url)>>
    ELSE <<LogRecord("coordinator", "exception",
                     "Unexpected error updating INIM data",
                     <<res.msg>>, res.url)>>

\* The log of one step of caller c: what is logged on the answer (entries),
\* then the request the step sends, if it sends one, then the coordinator's
\* records if the step ends a refresh.
Logging(c, entries) ==
    log' = [log EXCEPT ![c] =
               @ \o entries
                 \o (IF Len(sent'[c]) > Len(sent[c])
                     THEN RequestLog(sent'[c][Len(sent'[c])]) ELSE <<>>)
                 \o (IF c = "refresh" /\ pc'[c] = "done"
                     THEN CoordinatorLog(outcome'[c], events',
                                         ~last_update_success')
                     ELSE <<>>)]

\* faulty variant, for sensitivity checks: the refresh is requested in a
\* `finally`, whatever the command ended in
RequestsRefreshAlways(res) == TRUE

\* `await self._api.<command>(...)` followed by
\* `await self.coordinator.async_request_refresh()`: the second statement
\* runs when the first raised nothing
RequestsRefresh(res) == res.exc = "none"

\* The handler's call of async_request_refresh() in a step of caller c: the
\* entities and the services make it right after their command returned;
\* the session's operations and the coordinator never make it.
Asking(c) ==
    asked' = [asked EXCEPT ![c] =
                 /\ pc'[c] = "done"
                 /\ op'[c].via # "api"
                 /\ RequestsRefresh(outcome'[c])]

\* The end of an operation for caller c with result res.  For the refresh
\* caller the rest of _async_update_data and the coordinator's bookkeeping run
\* in the same step: nothing is awaited between the return of get_devices()
\* and the assignment of DataUpdateCoordinator.data.
Finish(c, res) ==
    /\ pc' = [pc EXCEPT ![c] = "done"]
    /\ outcome' = [outcome EXCEPT ![c] = res]
    /\ IF c = "refresh"
       THEN \E u \in {AsyncUpdateData(res, previous_alarm_states)} :
            /\ data' = IF u.failed THEN data ELSE Snapshot(u.devices)
            /\ last_update_success' = ~u.failed
            /\ previous_alarm_states' = u.table
            /\ events' = u.fired
            /\ IF res.exc # "none" \/ res.devices = <<>>
               THEN UNCHANGED <<run, run_events>>
               ELSE IF ~u.failed /\ run.on /\ Len(run.flags) < MaxRun /\ IsPure(res.devices)
               THEN /\ run' = [run EXCEPT !.flags =
                                  Append(@, res.devices[1].Areas[1].Alarm)]
                    /\ run_events' = run_events + EventsFor(u.fired, 1, 1)
               ELSE /\ run' = RunOff
                    /\ run_events' = 0
       ELSE UNCHANGED coord_vars

\* sending one more request and suspending at `where`
Send(c, req, where) ==
    /\ pc' = [pc EXCEPT ![c] = where]
    /\ sent' = [sent EXCEPT ![c] = Append(@, req)]

\* An operation is called: _ensure_authenticated() and, with a token present,
\* the building and sending of the first attempt.
Call(c, o) ==
    /\ pc[c] = "idle"
    /\ op' = [op EXCEPT ![c] = o]
    /\ got' = [got EXCEPT ![c] = <<>>]
    /\ outcome' = [outcome EXCEPT ![c] = Pending]
    /\ IF EnsureCallsAuthenticate(token)
       THEN /\ Send(c, RegisterClientRequest(client_id), "ensure")
            /\ UNCHANGED request_data
       ELSE /\ Send(c, BuildRequest(o, token, client_id), "first")
            /\ request_data' = [request_data EXCEPT ![c] =
                                   BuildRequest(o, token, client_id)]
    /\ UNCHANGED <<session_vars, coord_vars, panel_vars>>
    /\ Logging(c, <<>>)
    /\ Asking(c)

\* InimApi.authenticate() is called on its own: it sends RegisterClient
\* whatever the token is
CallAuthenticate(c) ==
    /\ pc[c] = "idle"
    /\ op' = [op EXCEPT ![c] = AuthenticateOp]
    /\ got' = [got EXCEPT ![c] = <<>>]
    /\ outcome' = [outcome EXCEPT ![c] = Pending]
    /\ Send(c, RegisterClientRequest(client_id), "auth")
    /\ UNCHANGED <<request_data, session_vars, coord_vars, panel_vars>>
    /\ Logging(c, <<>>)
    /\ Asking(c)

\* the answer to the RegisterClient of a bare authenticate()
AuthReply(c, reply) ==
    /\ pc[c] = "auth"
    /\ got' = [got EXCEPT ![c] = Append(@, Seen(reply))]
    /\ \E a \in {Authenticate(reply, token, token_ttl)} :
       /\ token' = a.token
       /\ token_ttl' = a.token_ttl
       /\ Finish(c, IF a.result.exc = "none" THEN OpReturned(<<>>)
                                             ELSE OpRaised(a.result))
    /\ UNCHANGED <<client_id, api_devices, op, sent, request_data, panel_vars>>
    /\ Logging(c, AuthenticateLog(reply, token, token_ttl))
    /\ Asking(c)

\* the answer to the RegisterClient of _ensure_authenticated()
EnsureReply(c, reply) ==
    /\ pc[c] = "ensure"
    /\ got' = [got EXCEPT ![c] = Append(@, Seen(reply))]
    /\ \E a \in {Authenticate(reply, token, token_ttl)} :
       /\ token' = a.token
       /\ token_ttl' = a.token_ttl
       /\ IF a.result.exc = "none"
          THEN /\ Send(c, BuildRequest(op[c], a.token, client_id), "first")
               /\ request_data' = [request_data EXCEPT ![c] =
                                      BuildRequest(op[c], a.token, client_id)]
               /\ UNCHANGED <<outcome, coord_vars>>
          ELSE /\ Finish(c, OpRaised(a.result))
               /\ UNCHANGED <<sent, request_data>>
    /\ UNCHANGED <<client_id, api_devices, op, panel_vars>>
    /\ Logging(c, AuthenticateLog(reply, token, token_ttl))
    /\ Asking(c)

\* faulty variant, for sensitivity checks: a stray `raise` at the end of the except block re-raises the
\* InimAuthError of the first attempt after a retry that succeeded
SucceedReraises(c, response) ==
    IF pc[c] = "retry"
    THEN /\ UNCHANGED api_devices
         /\ Finish(c, OpRaised(Raised("InimAuthError", "Unknown error", 18)))
    ELSE IF op[c].name = "get_devices"
    THEN /\ api_devices' = DevicesOf(response.data)
         /\ Finish(c, OpReturned(DevicesOf(response.data)))
    ELSE /\ UNCHANGED api_devices
         /\ Finish(c, OpReturned(<<>>))

\* what the operation does with the answer to an attempt that succeeded
Succeed(c, response) ==
    IF op[c].name = "get_devices"
    THEN /\ api_devices' = DevicesOf(response.data)
         /\ Finish(c, OpReturned(DevicesOf(response.data)))
    ELSE /\ UNCHANGED api_devices
         /\ Finish(c, OpReturned(<<>>))

\* the answer to the first attempt
FirstReply(c, reply) ==
    /\ pc[c] = "first"
    /\ got' = [got EXCEPT ![c] = Append(@, Seen(reply))]
    /\ \E response \in {Request(reply)} :
       IF response.exc = "none"
       THEN /\ Succeed(c, response)
            /\ UNCHANGED sent
       ELSE IF IsInimAuthError(response)
       THEN /\ Send(c, RegisterClientRequest(client_id), "reauth")
            /\ UNCHANGED <<outcome, coord_vars, api_devices>>
       ELSE /\ Finish(c, OpRaised(response))
            /\ UNCHANGED <<sent, api_devices>>
    /\ UNCHANGED <<token, token_ttl, client_id, op, request_data, panel_vars>>
    /\ Logging(c, AttemptLog(reply, op[c], TRUE))
    /\ Asking(c)

\* the answer to the RegisterClient sent from the except InimAuthError block
ReauthReply(c, reply) ==
    /\ pc[c] = "reauth"
    /\ got' = [got EXCEPT ![c] = Append(@, Seen(reply))]
    /\ \E a \in {Authenticate(reply, token, token_ttl)} :
       /\ token' = a.token
       /\ token_ttl' = a.token_ttl
       /\ IF a.result.exc = "none"
          THEN /\ Send(c, WithToken(request_data[c], a.token), "retry")
               /\ request_data' = [request_data EXCEPT ![c] =
                                      WithToken(@, a.token)]
               /\ UNCHANGED <<outcome, coord_vars>>
          ELSE /\ Finish(c, OpRaised(a.result))
               /\ UNCHANGED <<sent, request_data>>
    /\ UNCHANGED <<client_id, api_devices, op, panel_vars>>
    /\ Logging(c, AuthenticateLog(reply, token, token_ttl))
    /\ Asking(c)

\* faulty variant, for sensitivity checks: the retry handles InimAuthError as
\* the first attempt does, by authenticating and trying again
RetryReplyLoops(c, reply) ==
    /\ pc[c] = "retry"
    /\ got' = [got EXCEPT ![c] = Append(@, Seen(reply))]
    /\ \E response \in {Request(reply)} :
       IF response.exc = "none"
       THEN /\ Succeed(c, response)
            /\ UNCHANGED sent
       ELSE IF IsInimAuthError(response)
       THEN /\ Send(c, RegisterClientRequest(client_id), "reauth")
            /\ UNCHANGED <<outcome, coord_vars, api_devices>>
       ELSE /\ Finish(c, OpRaised(response))
            /\ UNCHANGED <<sent, api_devices>>
    /\ UNCHANGED <<token, token_ttl, client_id, op, request_data, panel_vars>>
    /\ Logging(c, AttemptLog(reply, op[c], FALSE))
    /\ Asking(c)

\* the answer to the retry
RetryReply(c, reply) ==
    /\ pc[c] = "retry"
    /\ got' = [got EXCEPT ![c] = Append(@, Seen(reply))]
    /\ \E response \in {Request(reply)} :
       IF response.exc = "none"
       THEN Succeed(c, response)
       ELSE /\ Finish(c, OpRaised(response))
            /\ UNCHANGED api_devices
    /\ UNCHANGED <<token, token_ttl, client_id, op, request_data, sent,
                   panel_vars>>
    /\ Logging(c, AttemptLog(reply, op[c], FALSE))
    /\ Asking(c)

\* InimBypassSwitch.async_turn_on (bypass) / async_turn_off (reinstate): the
\* user code comes from the entry's options; without one the switch logs an
\* error and returns, otherwise it awaits InimApi.bypass_zone and lets its
\* exception through (the refresh it then requests is the coordinator's).
SwitchTurn(c, device_id, zone_id, bypass) ==
    LET user_code == options.user_code
        o == Via(OpRecord("bypass_zone", device_id, zone_id, <<>>, user_code,
                          bypass), "switch")
    IN  IF user_code = ""
        THEN /\ pc[c] = "idle"
             /\ op' = [op EXCEPT ![c] = o]
             /\ pc' = [pc EXCEPT ![c] = "done"]
             /\ outcome' = [outcome EXCEPT ![c] = OpReturned(<<>>)]
             /\ UNCHANGED <<request_data, sent, got, session_vars, coord_vars,
                            panel_vars, log, asked>>
        ELSE Call(c, o)

\* the caller has taken the result; it may call again
Return(c) ==
    /\ pc[c] = "done"
    /\ pc' = [pc EXCEPT ![c] = "idle"]
    /\ op' = [op EXCEPT ![c] = NoOp]
    /\ request_data' = [request_data EXCEPT ![c] = NoRequest]
    /\ sent' = [sent EXCEPT ![c] = <<>>]
    /\ got' = [got EXCEPT ![c] = <<>>]
    /\ outcome' = [outcome EXCEPT ![c] = Pending]
    /\ log' = [log EXCEPT ![c] = <<>>]
    /\ asked' = [asked EXCEPT ![c] = FALSE]
    /\ UNCHANGED <<session_vars, coord_vars, panel_vars>>

\* the request caller c waits on
InFlight(c) == IF sent[c] = <<>> THEN NoRequest ELSE sent[c][Len(sent[c])]

----------------------------------------------------------------------------
(* Spec: one caller runs vendor operations on the session, one at a time *)

CallOperation == \E o \in CommandOps \cup {GetDevicesOp} : Call("cmd", o)
CallAuth == CallAuthenticate("cmd")
AnswerAuth == \E r \in Replies(InFlight("cmd"), SmallRawLists) : AuthReply("cmd", r)
AnswerEnsure == \E r \in Replies(InFlight("cmd"), SmallRawLists) : EnsureReply("cmd", r)
AnswerFirst == \E r \in Replies(InFlight("cmd"), SmallRawLists) : FirstReply("cmd", r)
AnswerReauth == \E r \in Replies(InFlight("cmd"), SmallRawLists) : ReauthReply("cmd", r)
AnswerRetry == \E r \in Replies(InFlight("cmd"), SmallRawLists) : RetryReply("cmd", r)
TurnSwitch == \E z \in ZoneArgs, f \in BOOLEAN : SwitchTurn("cmd", 1, z, f)
TakeResult == Return("cmd")

Next ==
    \/ CallOperation
    \/ TurnSwitch
    \/ CallAuth
    \/ AnswerAuth
    \/ AnswerEnsure
    \/ AnswerFirst
    \/ AnswerReauth
    \/ AnswerRetry
    \/ TakeResult

Spec == Init /\ [][Next]_vars

----------------------------------------------------------------------------
(* SpecRefresh: the coordinator's periodic refresh, one at a time *)

\* async_setup_entry authenticates before it constructs the coordinator
InitRefresh ==
    /\ token = "tokA"
    /\ token_ttl = ServerTTL
    /\ client_id = "ha-1111"
    /\ api_devices = <<>>
    /\ InitCallers
    /\ InitCoordinator
    /\ options = EntryOptions("1234")
    /\ InitPanels

\* the raw lists a retried get_devices() is answered with in SpecRefresh
RetryRawLists ==
    {<<>>, <<RawDevice(1, <<RawArea(1, TRUE)>>)>>,
     <<RawDevice(2, <<RawArea(1, FALSE)>>), RawDevice(0, <<RawArea(1, TRUE)>>)>>}

\* the answers of the server in SpecRefresh
RefreshReplies(req, lists) ==
    IF req.Method = "RegisterClient"
    THEN {Envelope(0, ABSENT, [NoData EXCEPT !.Token = "tokA", !.TTL = <<ServerTTL>>]),
          Envelope(1, "vendor says no", NoData),
          Failure("ClientError"),
          Answering(req, Failure("ClientResponseError"))}
    ELSE {Envelope(0, ABSENT, [NoData EXCEPT !.HasDevices = TRUE, !.Devices = l]) :
             l \in lists}
         \cup {Envelope(18, ABSENT, NoData), Envelope(1, "vendor says no", NoData),
               Failure("ClientError"), Failure("TimeoutError")}

\* DataUpdateCoordinator calls _async_update_data, which calls get_devices()
Refresh == Call("refresh", GetDevicesOp)
RefreshFirst ==
    \E r \in RefreshReplies(InFlight("refresh"), RawLists) : FirstReply("refresh", r)
RefreshReauth ==
    \E r \in RefreshReplies(InFlight("refresh"), {}) : ReauthReply("refresh", r)
RefreshRetry ==
    \E r \in RefreshReplies(InFlight("refresh"), RetryRawLists) : RetryReply("refresh", r)
RefreshDone == Return("refresh")

NextRefresh ==
    \/ Refresh
    \/ RefreshFirst
    \/ RefreshReauth
    \/ RefreshRetry
    \/ RefreshDone

SpecRefresh == InitRefresh /\ [][NextRefresh]_vars

----------------------------------------------------------------------------
(* SpecBoth: the periodic refresh and the entities' commands share the one
   InimApi of the entry; each is a task of the event loop that is suspended
   while its HTTP request is out, and nothing serialises them.  The vendor's
   lists include a device whose "Areas" is null. *)

\* the commands of the entities: arm away / disarm through the panel, a
\* press of the scenario button, the activate_scenario and bypass_zone
\* services
EntityOps ==
    {Via(OpRecord("activate_scenario", 1, s, <<>>, "", FALSE), "panel") :
        s \in {0, 1}}
    \cup {Via(OpRecord("activate_scenario", 1, 2, <<>>, "", FALSE), "button"),
          Via(OpRecord("activate_scenario", 1, 0, <<>>, "", FALSE), "service"),
          Via(OpRecord("bypass_zone", 1, 1, <<>>, "1234", TRUE), "service")}

\* the answers of the server in SpecBoth
BothReplies(req) ==
    {Answering(req, r) : r \in
        CASE req.Method = "RegisterClient" ->
                 {Envelope(0, ABSENT, [NoData EXCEPT !.Token = "tokB",
                                                     !.TTL = <<ServerTTL>>]),
                  Envelope(0, ABSENT, NoData),
                  Failure("ClientError")}
          [] req.Method = "GetDevicesExtended" ->
                 {Envelope(0, ABSENT, [NoData EXCEPT !.HasDevices = TRUE,
                                                     !.Devices = l]) :
                      l \in SmallRawLists \cup BrokenRawLists}
                 \cup {Envelope(18, ABSENT, NoData), Failure("ClientError")}
          [] OTHER ->
                 {Envelope(0, ABSENT, NoData), Envelope(18, ABSENT, NoData),
                  Failure("ClientError")}}

EntityCommand == \E o \in EntityOps : Call("cmd", o)
EntitySwitch == \E f \in BOOLEAN : SwitchTurn("cmd", 1, 1, f)
EntityEnsure == \E r \in BothReplies(InFlight("cmd")) : EnsureReply("cmd", r)
EntityFirst == \E r \in BothReplies(InFlight("cmd")) : FirstReply("cmd", r)
EntityReauth == \E r \in BothReplies(InFlight("cmd")) : ReauthReply("cmd", r)
EntityRetry == \E r \in BothReplies(InFlight("cmd")) : RetryReply("cmd", r)
EntityDone == Return("cmd")
PollStart == Call("refresh", GetDevicesOp)
PollEnsure == \E r \in BothReplies(InFlight("refresh")) : EnsureReply("refresh", r)
PollFirst == \E r \in BothReplies(InFlight("refresh")) : FirstReply("refresh", r)
PollReauth == \E r \in BothReplies(InFlight("refresh")) : ReauthReply("refresh", r)
PollRetry == \E r \in BothReplies(InFlight("refresh")) : RetryReply("refresh", r)
PollDone == Return("refresh")

NextBoth ==
    \/ EntityCommand
    \/ EntitySwitch
    \/ EntityEnsure
    \/ EntityFirst
    \/ EntityReauth
    \/ EntityRetry
    \/ EntityDone
    \/ PollStart
    \/ PollEnsure
    \/ PollFirst
    \/ PollReauth
    \/ PollRetry
    \/ PollDone

SpecBoth == InitRefresh /\ [][NextBoth]_vars

----------------------------------------------------------------------------
(* SpecPanel: the alarm control panels of an entry that has been set up *)

\* scenario names a panel may meet besides TOTALE, SPENTO and NOTTE
Totale == <<"T", "o", "t", "a", "l", "e">>
Spento == <<"S", "p", "e", "n", "t", "o">>
TOTAL == <<"T", "O", "T", "A", "L">>
OFF == <<"O", "F", "F">>
TOTALE_CASA == TOTALE \o <<" ">> \o <<"C", "A", "S", "A">>

\* the scenario lists a device may report
ScenarioLists ==
    {<<>>,
     <<RawScenario(0, TOTALE), RawScenario(1, SPENTO), RawScenario(2, NOTTE)>>,
     <<RawScenario(3, Spento), RawScenario(4, Totale)>>,
     <<RawScenario(5, OFF), RawScenario(7, TOTAL), RawScenario(9, NOTTE)>>,
     <<RawScenario(0, TOTALE_CASA), RawScenario(1, SPENTO), RawScenario(2, NOTTE)>>,
     <<RawScenario(2, NOTTE), RawScenario(1, TOTALE), RawScenario(6, <<>>)>>}

\* the active scenario a device may report (none, or an id)
ActiveScenarios == {<<>>, <<0>>, <<1>>, <<2>>, <<3>>, <<6>>, <<9>>}

\* the armed-status codes an area may report
ArmedCodes == {1, 2, 4}

\* most areas of a device in SpecPanel
MaxPanelAreas == 2

PanelAreas(id) ==
    {[RawArea(id, alarm) EXCEPT !.Armed = armed] :
        alarm \in BOOLEAN, armed \in ArmedCodes}

PanelAreaLists ==
    UNION {{[j \in 1..n |-> f[j]] : f \in [1..n -> PanelAreas(1)]} :
              n \in 0..MaxPanelAreas}

\* the raw lists of the first refresh in SpecPanel: one device, or none
PanelRawLists ==
    {<<>>}
    \cup {<<[RawDevice(1, areas) EXCEPT !.Scenarios = scenarios,
                                        !.ActiveScenario = active]>> :
            areas \in PanelAreaLists, scenarios \in ScenarioLists,
            active \in ActiveScenarios}

\* async_setup_entry has authenticated and the first refresh has succeeded
\* before the platforms are set up
InitPanel ==
    /\ token = "tokA"
    /\ token_ttl = ServerTTL
    /\ client_id = "ha-1111"
    /\ InitCallers
    /\ options = EntryOptions("1234")
    /\ InitPanels
    /\ \E devices \in PanelRawLists :
       \E u \in {AsyncUpdateData(OpReturned(devices), EmptyTable)} :
          /\ api_devices = devices
          /\ data = Snapshot(u.devices)
          /\ last_update_success = TRUE
          /\ previous_alarm_states = u.table
          /\ events = u.fired
          /\ run = RunOff
          /\ run_events = 0

Unwritten == [state |-> "unwritten", device |-> <<>>]

\* alarm_control_panel.async_setup_entry: the panels are created
SetupPanels ==
    /\ panels = <<>>
    /\ pc["refresh"] = "idle"
    /\ panels' = PanelsFor(Devices(data), options)
    /\ shown' = [e \in DOMAIN panels' |-> Unwritten]
    /\ UNCHANGED <<session_vars, caller_vars, coord_vars, options, hass_vars,
                   log, asked>>

\* _handle_coordinator_update / async_write_ha_state: Home Assistant reads
\* alarm_state of panel e
WriteState(e) ==
    /\ shown' = [shown EXCEPT ![e] =
                    [state |-> AlarmState(panels[e], data),
                     device |-> GetDevice(data, panels[e].device_id)]]
    /\ UNCHANGED <<session_vars, caller_vars, coord_vars, options, panels,
                   hass_vars, log, asked>>

WritePanelState == \E e \in DOMAIN panels : WriteState(e)

\* the commands of the device-level panel
PanelCommands == {"async_alarm_disarm", "async_alarm_arm_home", "async_alarm_arm_away"}

\* async_alarm_disarm / async_alarm_arm_home / async_alarm_arm_away: the
\* scenario id the command hands to the api
ScenarioSent(panel, command) ==
    CASE command = "async_alarm_disarm" -> panel.disarm_scenario
      [] command = "async_alarm_arm_home" ->
            IF panel.arm_home_scenarios # <<>> THEN panel.arm_home_scenarios[1]
            ELSE panel.arm_away_scenario
      [] command = "async_alarm_arm_away" -> panel.arm_away_scenario

\* a command of panel e, which Home Assistant has added and whose state it
\* has written: api.disarm / arm_home / arm_away are activate_scenario
PanelCommand(e, command) ==
    /\ shown[e] # Unwritten
    /\ Call("cmd", Via(OpRecord("activate_scenario", panels[e].device_id,
                                ScenarioSent(panels[e], command), <<>>, "", FALSE),
                       command))

\* the answers of the server to a command of a panel
PanelReplies(req) ==
    {Answering(req, r) : r \in {Envelope(0, ABSENT, NoData), Failure("ClientError")}}

CommandPanel == \E e \in DOMAIN panels, command \in PanelCommands : PanelCommand(e, command)
AnswerPanel == \E r \in PanelReplies(InFlight("cmd")) : FirstReply("cmd", r)
PanelDone == Return("cmd")

NextPanel ==
    \/ SetupPanels
    \/ WritePanelState
    \/ CommandPanel
    \/ AnswerPanel
    \/ PanelDone

SpecPanel == InitPanel /\ [][NextPanel]_vars

----------------------------------------------------------------------------
(* SpecServices: the services bypass_zone and activate_scenario of the domain,
   with one or two config entries loaded.  Each entry has its own InimApi
   (one vendor account each) and its own coordinator; the vendor operation
   the handler awaits is taken by its result. *)

\* hass.data[DOMAIN][entry_id] as async_setup_entry stores it: the entry's
\* api, the device ids of its coordinator's snapshot, the user code of its
\* options
Entry(id, devices, user_code) ==
    [entry_id |-> id, api |-> "api-" \o id, devices |-> devices,
     user_code |-> user_code]

\* the user codes of the entries ("" when none was entered)
EntryCodes == {"", "1234", "5678"}

\* the entry of the first account holds device 1, that of the second device 2
LoadedEntries ==
    {Entry("e1", {1}, c) : c \in EntryCodes}
    \cup {Entry("e2", {2}, c) : c \in EntryCodes}

\* the dicts of one or two entries, in either order of setup
EntryLists ==
    {<<e>> : e \in LoadedEntries}
    \cup {p \in LoadedEntries \X LoadedEntries : p[1].entry_id # p[2].entry_id}

\* `for entry_id, data in hass.data[DOMAIN].items(): api = data.get("api");
\* if api: ... return`: the place of the entry the handler works with, 0 when
\* the loop runs out
RECURSIVE ServiceEntry(_, _)
ServiceEntry(ents, i) ==
    IF i > Len(ents) THEN 0
    ELSE IF ~Falsy(ents[i].api) THEN i
    ELSE ServiceEntry(ents, i + 1)

\* what api.bypass_zone / api.activate_scenario end in for the handler:
\* InimAuthError is a subclass of InimApiError
ServiceResults == {"none", "InimApiError"}

\* the user_code of a service call (None when the call gives none)
CallCodes == {NULL, "9999"}

\* handle_bypass_zone
HandleBypassZone(device_id, call_code, result) ==
    LET i == ServiceEntry(domain_data, 1)
        call == [NoService EXCEPT !.service = "bypass_zone",
                                  !.device_id = device_id,
                                  !.call_code = call_code]
    IN  /\ served' =
             IF i = 0 THEN [call EXCEPT !.error = "No INIM Alarm API found"]
             ELSE LET user_code == IF Falsy(call_code)
                                   THEN domain_data[i].user_code
                                   ELSE call_code
                  IN  IF Falsy(user_code)
                      THEN [call EXCEPT !.error = "No user code provided"]
                      ELSE [call EXCEPT
                               !.result = result,
                               !.session = domain_data[i].api,
                               !.user_code = user_code,
                               !.refreshed = IF result = "none"
                                             THEN domain_data[i].entry_id
                                             ELSE NULL,
                               !.error = IF result = "none" THEN ""
                                         ELSE "Failed to bypass zone %s: %s"]
        /\ UNCHANGED <<session_vars, caller_vars, coord_vars, options, panels,
                       shown, domain_data, log, asked>>

\* handle_activate_scenario
HandleActivateScenario(device_id, result) ==
    LET i == ServiceEntry(domain_data, 1)
        call == [NoService EXCEPT !.service = "activate_scenario",
                                  !.device_id = device_id]
    IN  /\ served' =
             IF i = 0 THEN [call EXCEPT !.error = "No INIM Alarm API found"]
             ELSE [call EXCEPT
                      !.result = result,
                      !.session = domain_data[i].api,
                      !.refreshed = IF result = "none"
                                    THEN domain_data[i].entry_id ELSE NULL,
                      !.error = IF result = "none" THEN ""
                                ELSE "Failed to activate scenario %s: %s"]
        /\ UNCHANGED <<session_vars, caller_vars, coord_vars, options, panels,
                       shown, domain_data, log, asked>>

\* async_unload_entry: hass.data[DOMAIN].pop(entry.entry_id); the services
\* stay registered
UnloadEntry(i) ==
    /\ domain_data' = [k \in 1..Len(domain_data) - 1 |->
                          IF k < i THEN domain_data[k] ELSE domain_data[k + 1]]
    /\ UNCHANGED <<session_vars, caller_vars, coord_vars, options, panels,
                   shown, served, log, asked>>

InitServices ==
    /\ token = "tokA"
    /\ token_ttl = ServerTTL
    /\ client_id = "ha-1111"
    /\ api_devices = <<>>
    /\ InitCallers
    /\ InitCoordinator
    /\ options = EntryOptions("1234")
    /\ panels = <<>>
    /\ shown = <<>>
    /\ domain_data \in EntryLists
    /\ served = NoService

CallBypassZone ==
    \E d \in {1, 2}, c \in CallCodes, r \in ServiceResults :
        HandleBypassZone(d, c, r)
CallActivateScenario ==
    \E d \in {1, 2}, r \in ServiceResults : HandleActivateScenario(d, r)
Unload == \E i \in 1..Len(domain_data) : UnloadEntry(i)

NextServices ==
    \/ CallBypassZone
    \/ CallActivateScenario
    \/ Unload

SpecServices == InitServices /\ [][NextServices]_vars

----------------------------------------------------------------------------
(* async_setup_entry: how it classifies the failure of api.authenticate() *)

SetupEntry(result) ==
    IF result.exc = "none" THEN "loaded"
    ELSE IF IsInimAuthError(result) THEN "ConfigEntryAuthFailed"
    ELSE IF IsInimApiError(result) THEN "ConfigEntryNotReady"
    ELSE "unhandled"

----------------------------------------------------------------------------
(* Reading the history of an operation *)

\* answers, as the history keeps them
TokenInvalid(g) == g.kind = "json" /\ g.Status \in {18, 19, 20}
Succeeded(g) == g.kind = "json" /\ g.Status = 0
GaveToken(g) == Succeeded(g) /\ g.Token \notin {ABSENT, NULL, ""}
GenericFailure(g) == g.kind = "json" /\ g.Status # 0 /\ ~TokenInvalid(g)
ConnectivityFailure(g) == g.kind # "json"

IsRegister(req) == req.Method = "RegisterClient"

\* caller c runs one of the five vendor operations
RunsOperation(c) == op[c].name \notin {"none", "authenticate"}

\* the place in sent[c] of the operation's first attempt: 2 when
\* _ensure_authenticated() had to authenticate first, else 1
FirstAttempt(c) == IF sent[c] # <<>> /\ IsRegister(sent[c][1]) THEN 2 ELSE 1

\* the operation was started with a token present
StartedWithToken(c) == sent[c] # <<>> /\ ~IsRegister(sent[c][1])

Answered(c, k) == k <= Len(got[c])
LastAnswer(c) == got[c][Len(got[c])]

\* the message an error envelope's exception carries
VendorMessage(g) == IF g.ErrMsg = ABSENT THEN "Unknown error" ELSE g.ErrMsg

\* the requests of the operation's own method among sent[c]
Attempts(c) == {i \in 1..Len(sent[c]) : ~IsRegister(sent[c][i])}

----------------------------------------------------------------------------
(* Claims about the session *)

\* C1: when the first attempt of a vendor operation is answered token-invalid
\* (18, 19, 20), authenticate() is called once (one RegisterClient follows);
\* when it returns a token the same request is sent once more with only the
\* Token field replaced by that token, and when it fails nothing more is sent
\* and the operation raises; a retry answered token-invalid ends the operation
\* with InimAuthError and nothing more is sent.
C1_RetryOnce ==
    \A c \in Callers :
        LET f == FirstAttempt(c) IN
        (RunsOperation(c) /\ Answered(c, f) /\ TokenInvalid(got[c][f])) =>
            /\ Len(sent[c]) \in {f + 1, f + 2}
            /\ IsRegister(sent[c][f + 1])
            /\ sent[c][f + 1].Params.ClientId = client_id
            /\ Answered(c, f + 1) =>
                  IF GaveToken(got[c][f + 1])
                  THEN /\ Len(sent[c]) = f + 2
                       /\ sent[c][f + 2] =
                              [sent[c][f] EXCEPT !.Token = got[c][f + 1].Token]
                  ELSE /\ Len(sent[c]) = f + 1
                       /\ pc[c] = "done"
                       /\ outcome[c].exc # "none"
            /\ (Answered(c, f + 2) /\ TokenInvalid(got[c][f + 2])) =>
                  /\ pc[c] = "done"
                  /\ outcome[c].exc = "InimAuthError"
                  /\ outcome[c].code = got[c][f + 2].Status
                  /\ Len(sent[c]) = f + 2

C1_Witness ==
    /\ pc["cmd"] = "done"
    /\ op["cmd"].name = "bypass_zone"
    /\ Len(sent["cmd"]) = 3
    /\ TokenInvalid(got["cmd"][1])
    /\ GaveToken(got["cmd"][2])
    /\ sent["cmd"][3].Token # sent["cmd"][1].Token
    /\ TokenInvalid(got["cmd"][3])
    /\ outcome["cmd"].exc = "InimAuthError"

\* a command started with a token whose first attempt was answered
\* token-invalid and whose retry was answered with success
FailedOnceThenSucceeded(c) ==
    /\ pc[c] = "done"
    /\ RunsOperation(c)
    /\ StartedWithToken(c)
    /\ TokenInvalid(got[c][1])
    /\ \E k \in Attempts(c) : k > 1 /\ Answered(c, k) /\ Succeeded(got[c][k])

\* C2 as stated: such a command makes exactly two HTTP requests and succeeds.
C2_TwoCalls ==
    \A c \in Callers :
        FailedOnceThenSucceeded(c) =>
            Len(sent[c]) = 2 /\ outcome[c].exc = "none"

\* C2 amended: such a command makes exactly three HTTP requests, the two
\* attempts of the command with one RegisterClient between them, and succeeds.
C2_ThreeCalls ==
    \A c \in Callers :
        FailedOnceThenSucceeded(c) =>
            /\ Len(sent[c]) = 3
            /\ Attempts(c) = {1, 3}
            /\ IsRegister(sent[c][2])
            /\ outcome[c].exc = "none"

C2_Witness ==
    /\ FailedOnceThenSucceeded("cmd")
    /\ op["cmd"].name = "activate_scenario"

\* a command started with a token whose two attempts were both answered
\* token-invalid
FailedTwice(c) ==
    /\ pc[c] = "done"
    /\ RunsOperation(c)
    /\ StartedWithToken(c)
    /\ TokenInvalid(got[c][1])
    /\ \E k \in Attempts(c) : k > 1 /\ Answered(c, k) /\ TokenInvalid(got[c][k])

\* C3 as stated: such a command makes exactly two HTTP requests and raises
\* InimAuthError.
C3_TwoCalls ==
    \A c \in Callers :
        FailedTwice(c) =>
            Len(sent[c]) = 2 /\ outcome[c].exc = "InimAuthError"

\* C3 amended: such a command makes exactly three HTTP requests, the two
\* attempts of the command with one RegisterClient between them, and raises
\* InimAuthError; the command is not attempted a third time.
C3_ThreeCalls ==
    \A c \in Callers :
        FailedTwice(c) =>
            /\ Len(sent[c]) = 3
            /\ Attempts(c) = {1, 3}
            /\ IsRegister(sent[c][2])
            /\ outcome[c].exc = "InimAuthError"

C3_Witness ==
    /\ FailedTwice("cmd")
    /\ op["cmd"].name = "insert_areas"
    /\ got["cmd"][3].Status = 20

\* C4: an answer that is a generic API failure (a non-zero status outside
\* 18, 19, 20) or a connectivity failure, to the first attempt, to a
\* RegisterClient or to the retry, is the last exchange of the operation: no
\* request follows it and the operation raises that failure (InimApiError with
\* the vendor's code and message, or the transport's own exception).
C4_NoRetryNoSwallow ==
    \A c \in Callers : \A k \in 1..Len(got[c]) :
        LET g == got[c][k] IN
        (GenericFailure(g) \/ ConnectivityFailure(g)) =>
            /\ k = Len(sent[c])
            /\ pc[c] = "done"
            /\ IF GenericFailure(g)
               THEN /\ outcome[c].exc = "InimApiError"
                    /\ outcome[c].code = g.Status
                    /\ outcome[c].msg = VendorMessage(g)
               ELSE IF g.kind \in {"ClientError", "ClientResponseError",
                                   "ContentTypeError"}
               THEN outcome[c].exc = "InimApiError"
               ELSE outcome[c].exc = g.kind

C4_Witness ==
    /\ pc["cmd"] = "done"
    /\ op["cmd"].name = "activate_scenario"
    /\ Len(got["cmd"]) = 3
    /\ GenericFailure(got["cmd"][3])
    /\ outcome["cmd"].exc = "InimApiError"

\* an authenticate() call of caller c has just failed
AuthenticateFailed(c) ==
    /\ pc[c] = "done"
    /\ sent[c] # <<>>
    /\ IsRegister(sent[c][Len(sent[c])])
    /\ outcome[c].exc # "none"

\* C5 as stated: after a failed authenticate() the session holds no token
\* (None, or the empty string that _ensure_authenticated treats alike),
\* whatever it held before.
C5_FailedAuthClearsToken ==
    \A c \in Callers : AuthenticateFailed(c) => Falsy(token)

\* C6 as stated: authenticate() raises InimAuthError, which setup turns into
\* ConfigEntryAuthFailed, when the answer is malformed, when it is a success
\* envelope without a token, and when it is an explicit auth-error status.
C6_AuthErrorInEachCase ==
    \A c \in Callers :
        (AuthenticateFailed(c)
         /\ LET g == LastAnswer(c) IN
            \/ g.kind \in {"ContentTypeError", "JSONDecodeError"}
            \/ Succeeded(g) /\ ~GaveToken(g)
            \/ TokenInvalid(g))
        => /\ outcome[c].exc = "InimAuthError"
           /\ SetupEntry(outcome[c]) = "ConfigEntryAuthFailed"

\* C7: _ensure_authenticated() with a token present sends nothing and leaves
\* token, TTL and client id as they are (the operation's own request is the
\* first one sent, carrying that token unvalidated); without a token it calls
\* authenticate() once: exactly one RegisterClient is sent.  (A step from
\* "idle" to "done" is the bypass switch returning without calling the API.)
C7_EnsureAuthenticated ==
    [][\A c \in Callers :
          (pc[c] = "idle" /\ pc'[c] \notin {"idle", "done"}
              /\ op'[c].name # "authenticate") =>
              IF ~Falsy(token)
              THEN /\ pc'[c] = "first"
                   /\ Len(sent'[c]) = 1
                   /\ ~IsRegister(sent'[c][1])
                   /\ sent'[c][1].Token = token
                   /\ token' = token
                   /\ token_ttl' = token_ttl
                   /\ client_id' = client_id
              ELSE /\ pc'[c] = "ensure"
                   /\ Len(sent'[c]) = 1
                   /\ IsRegister(sent'[c][1])]_vars

C7_Witness ==
    /\ pc["cmd"] = "first"
    /\ op["cmd"].name = "request_poll"
    /\ Len(sent["cmd"]) = 1
    /\ token \in ServerTokens
    /\ sent["cmd"][1].Token = token

\* C8: every envelope falls in exactly one class: Status 0 is returned as
\* success, Status 18, 19, 20 raises InimAuthError, any other Status raises
\* the plain InimApiError; either exception carries the vendor's ErrMsg (or
\* "Unknown error") and the status code.
C8_Classification ==
    \A c \in Callers :
        /\ pc[c] \in {"reauth"} => TokenInvalid(LastAnswer(c))
        /\ pc[c] \in {"first", "retry"} /\ got[c] # <<>> => Succeeded(LastAnswer(c))
        /\ (pc[c] = "done" /\ got[c] # <<>> /\ LastAnswer(c).kind = "json") =>
              LET g == LastAnswer(c)
                  o == outcome[c]
              IN  /\ g.Status = 0 =>
                        \/ o.exc = "none"
                        \/ IsRegister(sent[c][Len(sent[c])]) /\ ~GaveToken(g)
                  /\ g.Status \in {18, 19, 20} =>
                        /\ o.exc = "InimAuthError"
                        /\ o.code = g.Status
                        /\ o.msg = VendorMessage(g)
                  /\ g.Status \notin {0, 18, 19, 20} =>
                        /\ o.exc = "InimApiError"
                        /\ o.code = g.Status
                        /\ o.msg = VendorMessage(g)
                  /\ o.exc = "none" => g.Status = 0

C8_Witness ==
    /\ pc["cmd"] = "done"
    /\ op["cmd"].name = "get_devices"
    /\ LastAnswer("cmd").kind = "json"
    /\ LastAnswer("cmd").Status = 21
    /\ LastAnswer("cmd").ErrMsg = "vendor says no"
    /\ outcome["cmd"] = [exc |-> "InimApiError", msg |-> "vendor says no",
                         code |-> 21, devices |-> <<>>, url |-> NoRequest]

----------------------------------------------------------------------------
(* Claims about the coordinator *)

\* the area records of a snapshot, as (device index, area index), of the
\* devices that have a usable device id: the (device, area) pairs
PairRecords(devs) ==
    {<<i, j>> \in (1..Len(devs)) \X (1..MaxAreaRecords + 1) :
        /\ devs[i].device_id # 0
        /\ j <= Len(devs[i].areas)}

KeyOf(devs, r) == <<devs[r[1]].device_id, devs[r[1]].areas[r[2]].AreaId>>
FlagOf(devs, r) == devs[r[1]].areas[r[2]].Alarm

Earlier(q, r) == q[1] < r[1] \/ (q[1] = r[1] /\ q[2] < r[2])

\* the records of the same pair that come earlier in the same snapshot
EarlierSame(devs, r) ==
    {q \in PairRecords(devs) : Earlier(q, r) /\ KeyOf(devs, q) = KeyOf(devs, r)}

\* the value stored for the pair of record r when r is compared: the flag of
\* the closest earlier record of the pair in this snapshot if there is one,
\* else what the side table held before the refresh, else false
StoredPrevious(devs, table, r) ==
    IF EarlierSame(devs, r) = {}
    THEN IF KeyOf(devs, r) \in DOMAIN table THEN table[KeyOf(devs, r)] ELSE FALSE
    ELSE LET q == CHOOSE q \in EarlierSame(devs, r) :
                     \A p \in EarlierSame(devs, r) : p = q \/ Earlier(p, q)
         IN  FlagOf(devs, q)

RisingEdge(devs, table, r) == FlagOf(devs, r) /\ ~StoredPrevious(devs, table, r)

\* the event a record is announced with
ExpectedEvent(devs, r) ==
    LET area == devs[r[1]].areas[r[2]] IN
    [device_id |-> devs[r[1]].device_id,
     device_name |-> devs[r[1]].name,
     area_id |-> area.AreaId,
     area_name |-> IF area.AreaId = 1 THEN "Perimeter" ELSE "Area 2"]

Occurrences(seq, e) == Cardinality({i \in 1..Len(seq) : seq[i] = e})

\* number of rising edges of a sequence of flags that starts from false
Rises(flags) ==
    Cardinality({i \in 1..Len(flags) : flags[i] /\ (i = 1 \/ ~flags[i - 1])})

\* a step in which a refresh ends
RefreshEnds == pc["refresh"] # "done" /\ pc'["refresh"] = "done"

\* C9: in every refresh that succeeds, an "alarm triggered" event with device
\* id, device name, area id and area name is fired for a (device, area) pair
\* exactly when the pair's alarm flag is true and the value stored for the
\* pair (false if never seen) is false: none on a sustained true, none on a
\* falling edge, none for a pair that is not in the snapshot.  Over the
\* successive refreshes of one pair the number of events is the number of
\* rising edges of its flags: two for [false, true, true, false, true].
C9_EdgeTriggered ==
    [][/\ (RefreshEnds /\ outcome'["refresh"].exc = "none" /\ last_update_success') =>
            LET devs == data'.devices IN
            /\ \A r \in PairRecords(devs) :
                  Occurrences(events', ExpectedEvent(devs, r)) =
                      Cardinality({q \in PairRecords(devs) :
                          /\ RisingEdge(devs, previous_alarm_states, q)
                          /\ ExpectedEvent(devs, q) = ExpectedEvent(devs, r)})
            /\ \A i \in 1..Len(events') :
                  \E r \in PairRecords(devs) : events'[i] = ExpectedEvent(devs, r)
       /\ run'.on => run_events' = Rises(run'.flags)
       /\ (run'.on /\ run'.flags = <<FALSE, TRUE, TRUE, FALSE, TRUE>>) =>
              run_events' = 2]_vars

C9_Witness ==
    /\ run.on
    /\ run.flags = <<FALSE, TRUE, TRUE, FALSE, TRUE>>
    /\ run_events = 2
    /\ Len(events) = 1
    /\ events[1] = [device_id |-> 1, device_name |-> "Villa", area_id |-> 1,
                    area_name |-> "Perimeter"]

\* C10: a refresh whose get_devices() raises (InimAuthError, InimApiError)
\* ends as a failed update (UpdateFailed: last_update_success is false) and
\* leaves the snapshot as it was: devices, get_device, get_zone, get_area and
\* get_scenario answer after it what they answered before it.
C10_FailedRefreshKeepsSnapshot ==
    [][(RefreshEnds /\ outcome'["refresh"].exc # "none") =>
           /\ ~last_update_success'
           /\ data'.is_none = data.is_none
           /\ Devices(data') = Devices(data)
           /\ \A d \in DeviceIdValues :
                 /\ GetDevice(data', d) = GetDevice(data, d)
                 /\ \A a \in {1, 2} : GetArea(data', d, a) = GetArea(data, d, a)
                 /\ \A z \in {1, 2} : GetZone(data', d, z) = GetZone(data, d, z)
                 /\ \A x \in ScenarioArgs :
                       GetScenario(data', d, x) = GetScenario(data, d, x)]_vars

C10_Witness ==
    /\ pc["refresh"] = "done"
    /\ outcome["refresh"].exc = "InimAuthError"
    /\ ~last_update_success
    /\ Len(Devices(data)) = 2
    /\ GetArea(data, 1, 2) # <<>>
    /\ GetZone(data, 1, 1) # <<>>
    /\ GetScenario(data, 1, 0) # <<>>

\* the raw devices that have a usable device id, in the vendor's order
RECURSIVE UsableOnly(_)
UsableOnly(devices) ==
    IF devices = <<>> THEN <<>>
    ELSE (IF Head(devices).DeviceId # 0 THEN <<Head(devices)>> ELSE <<>>)
         \o UsableOnly(Tail(devices))

\* C11 as stated: after a refresh that succeeded the snapshot holds, in the
\* vendor's order, one record for every raw device with a usable device id
\* and no record for a raw device without one.
C11_SnapshotOnlyUsableDevices ==
    (pc["refresh"] = "done" /\ outcome["refresh"].exc = "none"
        /\ last_update_success) =>
        /\ Devices(data) = BuildDevices(UsableOnly(outcome["refresh"].devices))
        /\ \A i \in 1..Len(Devices(data)) : Devices(data)[i].device_id # 0

----------------------------------------------------------------------------
(* Claims about the alarm control panel *)

\* panel e has written its state from a device of the snapshot
Written(e) == shown[e].state # "unwritten" /\ shown[e].device # <<>>

\* the device record panel e read, its areas and its active scenario
ReadDevice(e) == shown[e].device[1]
LiveAlarm(e) ==
    \E i \in 1..Len(ReadDevice(e).areas) : ReadDevice(e).areas[i].Alarm
ActiveIs(e, id) == ReadDevice(e).active_scenario = <<id>>

\* the active scenario is none of the three resolved ids (or is not reported)
ActiveUnknown(e) ==
    /\ ~ActiveIs(e, panels[e].disarm_scenario)
    /\ ~ActiveIs(e, panels[e].arm_away_scenario)
    /\ ~ActiveIs(e, panels[e].arm_home_scenario)

\* C12 as stated: a panel whose device has an area with a live alarm shows
\* TRIGGERED, whatever the active scenario is.
C12_AlarmMeansTriggered ==
    \A e \in DOMAIN shown :
        (Written(e) /\ LiveAlarm(e)) => shown[e].state = "triggered"

\* C13: with no live alarm, a panel shows DISARMED when the active scenario
\* is the disarm id, otherwise ARMED_AWAY when it is the away id, otherwise
\* ARMED_HOME when it is the home id; the armed-status codes of the areas do
\* not matter.
C13_ScenarioPrecedence ==
    \A e \in DOMAIN shown :
        (Written(e) /\ ~LiveAlarm(e)) =>
            IF ActiveIs(e, panels[e].disarm_scenario)
            THEN shown[e].state = "disarmed"
            ELSE IF ActiveIs(e, panels[e].arm_away_scenario)
            THEN shown[e].state = "armed_away"
            ELSE ActiveIs(e, panels[e].arm_home_scenario) =>
                     shown[e].state = "armed_home"

C13_Witness ==
    \E e \in DOMAIN shown :
        /\ Written(e)
        /\ ~LiveAlarm(e)
        /\ ActiveIs(e, panels[e].arm_home_scenario)
        /\ panels[e].arm_home_scenario \notin
               {panels[e].disarm_scenario, panels[e].arm_away_scenario}
        /\ shown[e].state = "armed_home"
        /\ \E i \in 1..Len(ReadDevice(e).areas) : ReadDevice(e).areas[i].Armed = 4

\* C14 as stated: with no live alarm and an active scenario that is none of
\* the three ids, a panel shows ARMED_AWAY when some area's armed-status code
\* is not 4 and DISARMED when every area reports 4.
C14_FallbackByAreas ==
    \A e \in DOMAIN shown :
        (Written(e) /\ ~LiveAlarm(e) /\ ActiveUnknown(e)) =>
            shown[e].state =
                IF \E i \in 1..Len(ReadDevice(e).areas) :
                       ReadDevice(e).areas[i].Armed # 4
                THEN "armed_away" ELSE "disarmed"

\* the heuristics of the claims: the name contains, ignoring case, "TOTALE"
\* or "TOTAL" / "SPENTO" or "OFF"
AwayName(scenario) ==
    \/ Contains(Lower(TOTALE), Lower(scenario.Name))
    \/ Contains(Lower(TOTAL), Lower(scenario.Name))
DisarmName(scenario) ==
    \/ Contains(Lower(SPENTO), Lower(scenario.Name))
    \/ Contains(Lower(OFF), Lower(scenario.Name))
NeitherName(scenario) == ~AwayName(scenario) /\ ~DisarmName(scenario)

\* the first place of a scenario list that satisfies a test, 0 if there is none
FirstPlace(scenarios, Test(_)) ==
    IF \E i \in 1..Len(scenarios) : Test(scenarios[i])
    THEN CHOOSE i \in 1..Len(scenarios) :
             Test(scenarios[i]) /\ \A j \in 1..(i - 1) : ~Test(scenarios[j])
    ELSE 0

\* C15 as stated: with no configured ids, away is the scenario whose name
\* contains TOTALE or TOTAL, disarm the one whose name contains SPENTO or OFF,
\* home the first scenario that matches neither, and so differs from the
\* detected away and disarm ids; TOTALE, SPENTO, NOTTE with ids 0, 1, 2
\* resolve to 0 / 1 / 2.
C15_AutoDetection ==
    \A e \in DOMAIN panels :
        LET sc == panels[e].scenarios
            a == FirstPlace(sc, AwayName)
            d == FirstPlace(sc, DisarmName)
            h == FirstPlace(sc, NeitherName)
        IN  /\ a # 0 => panels[e].arm_away_scenario = sc[a].ScenarioId
            /\ d # 0 => panels[e].disarm_scenario = sc[d].ScenarioId
            /\ h # 0 =>
                  /\ panels[e].arm_home_scenario = sc[h].ScenarioId
                  /\ a # 0 => panels[e].arm_home_scenario # sc[a].ScenarioId
                  /\ d # 0 => panels[e].arm_home_scenario # sc[d].ScenarioId
            /\ sc = <<RawScenario(0, TOTALE), RawScenario(1, SPENTO),
                      RawScenario(2, NOTTE)>> =>
                  /\ panels[e].arm_away_scenario = 0
                  /\ panels[e].disarm_scenario = 1
                  /\ panels[e].arm_home_scenario = 2

ExactName(scenario) == Upper(scenario.Name) \in {TOTALE, SPENTO}
OtherName(scenario) == ~ExactName(scenario)

----------------------------------------------------------------------------
(* Claims about the commands that need the user code *)

NeedsUserCode(c) == op[c].name \in {"bypass_zone", "insert_areas"}

\* C17 as stated: a bypass or an area-arm called with an empty user code
\* sends no request at all, neither RegisterClient nor the command, and ends
\* in a ConfigurationError.
C17_EmptyCodeRejected ==
    \A c \in Callers :
        (NeedsUserCode(c) /\ op[c].user_code = "") =>
            /\ sent[c] = <<>>
            /\ pc[c] = "done" => outcome[c].exc = "ConfigurationError"

\* the places in sent[c] of the command requests (all but RegisterClient)
CommandPlaces(c) == {k \in 1..Len(sent[c]) : ~IsRegister(sent[c][k])}

\* C18: every InsertZone request of bypass_zone carries Mode 3 to bypass and
\* Mode 0 to reinstate; every InsertAreas request of insert_areas carries Mode
\* 0 to arm and Mode 3 to disarm, with all the area ids in that one request;
\* the retry after the re-authentication carries the Mode of the first attempt.
C18_ModeEncoding ==
    \A c \in Callers :
        /\ op[c].name = "bypass_zone" =>
              \A k \in CommandPlaces(c) :
                  /\ sent[c][k].Method = "InsertZone"
                  /\ sent[c][k].Params.ZoneId = op[c].item_id
                  /\ sent[c][k].Params.Mode = IF op[c].flag THEN 3 ELSE 0
        /\ op[c].name = "insert_areas" =>
              \A k \in CommandPlaces(c) :
                  /\ sent[c][k].Method = "InsertAreas"
                  /\ sent[c][k].Params.AreaIds = op[c].area_ids
                  /\ sent[c][k].Params.Mode = IF op[c].flag THEN 0 ELSE 3
        /\ NeedsUserCode(c) =>
              /\ Cardinality(CommandPlaces(c)) <= 2
              /\ \A k, l \in CommandPlaces(c) :
                     sent[c][k].Params.Mode = sent[c][l].Params.Mode

C18_Witness ==
    /\ pc["cmd"] = "done"
    /\ op["cmd"] = OpRecord("insert_areas", 1, 0, <<1, 2>>, "1234", FALSE)
    /\ Cardinality(CommandPlaces("cmd")) = 2
    /\ \A k \in CommandPlaces("cmd") :
           /\ sent["cmd"][k].Params.Mode = 3
           /\ sent["cmd"][k].Params.AreaIds = <<1, 2>>
    /\ outcome["cmd"].exc = "none"

----------------------------------------------------------------------------
(* Claims about the log *)

\* the values that must stay out of the log
Secrets == {Username, Password} \cup ServerTokens \cup (UserCodes \ {""})

\* the values a URL spells out: those of the request it encodes
UrlValues(req) ==
    IF req = NoRequest THEN {}
    ELSE {req.Token}
         \cup (CASE req.Method = "RegisterClient" ->
                       {req.Params.Username, req.Params.Password}
                 [] req.Method \in {"InsertZone", "InsertAreas"} ->
                       {req.Params.Code}
                 [] OTHER -> {})

\* the values a log record spells out
Mentions(rec) == {rec.args[i] : i \in 1..Len(rec.args)} \cup UrlValues(rec.url)

\* C19 as stated: no record the session or the coordinator logs spells out
\* the username, the password, the user code or a token, whatever the outcome
\* of the operation; the transport logs the method name of the request and
\* the status code of the response, nothing else.
C19_NoSecretLogged ==
    \A c \in Callers :
        \A k \in 1..Len(log[c]) :
            /\ Mentions(log[c][k]) \cap Secrets = {}
            /\ log[c][k].msg = "API Request: %s" =>
                  \E j \in 1..Len(sent[c]) : log[c][k].args = <<sent[c][j].Method>>
            /\ log[c][k].msg = "API Response Status: %s" =>
                  \E j \in 1..Len(got[c]) : log[c][k].args = <<Str(got[c][j].Status)>>

----------------------------------------------------------------------------
(* Claims about the callers of one entry *)

\* caller c is suspended on an HTTP request of its operation
Suspended(c) == pc[c] \in {"auth", "ensure", "first", "reauth", "retry"}

\* this step is caller c's and reads or writes the session's token or its
\* cached device list: the start of an operation (_ensure_authenticated reads
\* the token, the request is built with it), an authenticate() that stores a
\* token, the retry that is given the token, a get_devices() that stores the
\* list
Touches(c) ==
    \/ pc[c] = "idle" /\ pc'[c] \in {"ensure", "first"}
    \/ /\ Suspended(c)
       /\ pc'[c] # pc[c]
       /\ \/ pc'[c] \in {"first", "retry"}
          \/ token' # token
          \/ op[c].name = "get_devices" /\ outcome'[c].exc = "none"

\* C20 as stated: no operation reads or writes the token or the cached
\* device list while another operation of the same entry, which reads and
\* writes them too, is in flight.
C20_NoConcurrentAccess ==
    [][\A c \in Callers :
          Touches(c) => \A d \in Callers \ {c} : ~Suspended(d)]_vars

----------------------------------------------------------------------------
(* Claims about the handlers of the commands *)

\* the command of caller c got its final answer and that answer is a success
CommandSucceeded(c) ==
    /\ pc[c] = "done"
    /\ sent[c] # <<>>
    /\ ~IsRegister(sent[c][Len(sent[c])])
    /\ Len(got[c]) = Len(sent[c])
    /\ Succeeded(LastAnswer(c))

\* C21: the handler of a command (panel, button, switch, service) requests a
\* refresh of the coordinator exactly when the command succeeded, and only
\* once the command's last answer is in; while the session's operation is in
\* flight nothing is requested, and a failed command requests nothing.
C21_FireAndRefresh ==
    \A c \in Callers :
        /\ pc[c] # "done" => ~asked[c]
        /\ op[c].via = "api" => ~asked[c]
        /\ (pc[c] = "done" /\ op[c].via # "api") =>
               (asked[c] <=> CommandSucceeded(c))

C21_Witness ==
    /\ pc["cmd"] = "done"
    /\ op["cmd"].via = "panel"
    /\ Len(sent["cmd"]) = 3
    /\ CommandSucceeded("cmd")
    /\ asked["cmd"]
    /\ Suspended("refresh")

----------------------------------------------------------------------------
(* Claims about the transport's failures *)

\* the failures of the transport itself: connecting (DNS, TLS, refused), a
\* non-2xx status, the timeout
TransportFailure(g) == g.kind \in {"ClientError", "ClientResponseError", "TimeoutError"}

\* C22 as stated: every transport-level error, timeouts and non-2xx answers
\* included, reaches the caller as the connectivity failure InimApiError and
\* as no other exception type.
C22_TransportFailureIsApiError ==
    \A c \in Callers :
        (pc[c] = "done" /\ got[c] # <<>> /\ TransportFailure(LastAnswer(c))) =>
            outcome[c].exc = "InimApiError"

----------------------------------------------------------------------------
(* Claims about the side table within one poll cycle *)

\* record r rises against what the side table held before the cycle
RisesOverCycle(devs, table, r) ==
    FlagOf(devs, r) /\ ~TableGet(table, KeyOf(devs, r), FALSE)

\* C23 as stated: the side table is written once per poll cycle, after the
\* transitions of all (device, area) pairs were detected, so every area
\* record of a snapshot, a second record of the same pair included, is
\* compared with the value the previous cycle stored.
C23_ComparedWithPreviousCycle ==
    [][(RefreshEnds /\ outcome'["refresh"].exc = "none" /\ last_update_success') =>
          LET devs == data'.devices IN
          \A r \in PairRecords(devs) :
              Occurrences(events', ExpectedEvent(devs, r)) =
                  Cardinality({q \in PairRecords(devs) :
                      /\ RisesOverCycle(devs, previous_alarm_states, q)
                      /\ ExpectedEvent(devs, q) = ExpectedEvent(devs, r)})]_vars

\* the last record of the pair of record r in the snapshot
LastOfPair(devs, r) ==
    \A q \in PairRecords(devs) : KeyOf(devs, q) = KeyOf(devs, r) => ~Earlier(r, q)

\* C24 as stated: the side table is brought to the new flags before the new snapshot
\* becomes visible, in one step: in every state each (device, area) pair of
\* the visible snapshot has a side-table entry, and it equals the alarm flag
\* of the pair's record in the snapshot (of its last record, should the
\* vendor list name a pair twice).
C24_SideTableMatchesSnapshot ==
    ~data.is_none =>
        \A r \in PairRecords(data.devices) :
            /\ KeyOf(data.devices, r) \in DOMAIN previous_alarm_states
            /\ LastOfPair(data.devices, r) =>
                  previous_alarm_states[KeyOf(data.devices, r)] =
                      FlagOf(data.devices, r)

----------------------------------------------------------------------------
(* Claims about the number of requests of an operation *)

VendorOperations ==
    {"get_devices", "activate_scenario", "bypass_zone", "insert_areas",
     "request_poll"}

RegisterPlaces(c) == {k \in 1..Len(sent[c]) : IsRegister(sent[c][k])}

\* C25: whatever the server answers, one call of a vendor operation sends at
\* most four requests, at most two RegisterClient and at most two of its own
\* method, and the answer to the last of them ends it: it does not loop on
\* re-authentication.
C25_BoundedRequests ==
    \A c \in Callers :
        op[c].name \in VendorOperations =>
            /\ Len(sent[c]) <= 4
            /\ Cardinality(RegisterPlaces(c)) <= 2
            /\ Cardinality(CommandPlaces(c)) <= 2
            /\ \A k \in CommandPlaces(c) :
                   sent[c][k].Method = BuildRequest(op[c], "", "").Method
            /\ Len(got[c]) = 4 => pc[c] = "done"
            /\ Cardinality(CommandPlaces(c)) = 2 /\ Len(got[c]) = Len(sent[c])
                   => pc[c] = "done"

C25_Witness ==
    /\ pc["cmd"] = "done"
    /\ op["cmd"].name = "request_poll"
    /\ Len(sent["cmd"]) = 4
    /\ Cardinality(RegisterPlaces("cmd")) = 2
    /\ TokenInvalid(LastAnswer("cmd"))
    /\ outcome["cmd"].exc = "InimAuthError"

----------------------------------------------------------------------------
(* Claims about the token of the requests *)

\* caller c sends a request in this step
Sends(c) == Len(sent'[c]) > Len(sent[c])
Sending(c) == sent'[c][Len(sent'[c])]

\* caller c is answered a RegisterClient in this step, with a token
RegisteredNow(c) ==
    /\ pc[c] \in {"auth", "ensure", "reauth"}
    /\ Len(got'[c]) > Len(got[c])
    /\ GaveToken(got'[c][Len(got'[c])])
    /\ got'[c][Len(got'[c])].Token = token'

\* C26: every request other than RegisterClient carries a token that is
\* neither null nor empty: the session's token at the time of sending, which
\* a successful RegisterClient of the session returned; the session's token
\* only changes to a non-empty value on such an answer.  This holds after
\* failed authentications and when a refresh and commands interleave.
C26_TokenOnEveryRequest ==
    [][/\ \A c \in Callers :
             (Sends(c) /\ ~IsRegister(Sending(c))) =>
                 /\ ~Falsy(Sending(c).Token)
                 /\ Sending(c).Token = token'
                 /\ Sending(c).Token \in ServerTokens
       /\ (token' # token /\ ~Falsy(token')) =>
              \E c \in Callers : RegisteredNow(c)]_vars

C26_Witness ==
    /\ pc["cmd"] = "retry"
    /\ pc["refresh"] = "first"
    /\ Len(sent["cmd"]) = 3
    /\ sent["cmd"][1].Token = "tokA"
    /\ sent["cmd"][3].Token = "tokB"
    /\ Len(sent["refresh"]) = 2
    /\ IsRegister(sent["refresh"][1])
    /\ sent["refresh"][2].Token = "tokB"
    /\ token = "tokB"

----------------------------------------------------------------------------
(* Claims about re-authentication by several callers *)

\* C27 as stated: at most one RegisterClient of the session is in flight at
\* any time, also when a refresh and a command both find the token missing
\* or are both answered token-invalid; and a retry is sent with the session's
\* token of that moment, not with one a later RegisterClient has replaced.
C27_OneRegisterInFlight ==
    [][/\ \A c, d \in Callers :
             (pc'[c] \in {"auth", "ensure", "reauth"}
                 /\ pc'[d] \in {"auth", "ensure", "reauth"}) => c = d
       /\ \A c \in Callers :
             (Sends(c) /\ pc'[c] = "retry") => Sending(c).Token = token']_vars

----------------------------------------------------------------------------
(* Claims about a refresh that fails *)

\* C28 as stated: a refresh that ends as a failed update has fired no alarm
\* event and leaves the side table as it was before the refresh (so that an
\* alarm flag that rose while refreshes failed is still a rising edge for
\* the next refresh that succeeds).
C28_FailedRefreshKeepsEdgeState ==
    [][(RefreshEnds /\ ~last_update_success') =>
           /\ events' = <<>>
           /\ previous_alarm_states' = previous_alarm_states]_vars

----------------------------------------------------------------------------
(* Claims about the services *)

\* the loaded entries whose snapshot holds the device
OwnersOf(ents, device_id) == {i \in 1..Len(ents) : device_id \in ents[i].devices}

\* C29 as stated: a call of bypass_zone or activate_scenario is sent through
\* the session of the entry whose snapshot holds the device of the call, with
\* that entry's user code when the call gives none, and on success the
\* refresh is requested of that entry's coordinator; with two entries
\* loaded, a call for a device of the second is never sent with the session
\* or the user code of the first.
C29_ServiceUsesOwningEntry ==
    [][served' # served =>
          \A i \in OwnersOf(domain_data, served'.device_id) :
              LET user_code == IF Falsy(served'.call_code)
                               THEN domain_data[i].user_code
                               ELSE served'.call_code
              IN  (served'.service = "activate_scenario" \/ ~Falsy(user_code)) =>
                      /\ served'.session = domain_data[i].api
                      /\ served'.service = "bypass_zone" =>
                             served'.user_code = user_code
                      /\ served'.result = "none" =>
                             served'.refreshed = domain_data[i].entry_id]_vars

----------------------------------------------------------------------------
(* Claims about the commands of the panel and the state derived after them *)

\* the snapshot in which the device shows the scenario as its active one and
\* no area in alarm
Adopted(snap, device_id, scenario_id) ==
    Snapshot([i \in DOMAIN snap.devices |->
                 IF snap.devices[i].device_id = device_id
                 THEN [snap.devices[i] EXCEPT
                          !.active_scenario = <<scenario_id>>,
                          !.areas = [j \in DOMAIN @ |-> [@[j] EXCEPT !.Alarm = FALSE]]]
                 ELSE snap.devices[i]])

StateAfter(command) ==
    CASE command = "async_alarm_disarm" -> "disarmed"
      [] command = "async_alarm_arm_home" -> "armed_home"
      [] command = "async_alarm_arm_away" -> "armed_away"

\* C30 as stated: with the ids auto-detected from any scenario list, once the
\* device shows the scenario id a command of the panel sent as its active
\* scenario and no area is in alarm, alarm_state is DISARMED after disarm,
\* ARMED_AWAY after arm away and ARMED_HOME after arm home; arm home sends
\* neither the away id nor the disarm id.
C30_CommandsRoundTrip ==
    \A e \in DOMAIN panels :
        LET o == op["cmd"] IN
        (o.via \in PanelCommands /\ o.device_id = panels[e].device_id) =>
            /\ AlarmState(panels[e], Adopted(data, o.device_id, o.item_id)) =
                   StateAfter(o.via)
            /\ o.via = "async_alarm_arm_home" =>
                   o.item_id \notin {panels[e].arm_away_scenario,
                                     panels[e].disarm_scenario}

====
